---------------------------- MODULE Spec2Model ----------------------------
(***************************************************************************)
(* A model of moxygen's MoQSession (moxygen/MoQSession.cpp).               *)
(*                                                                         *)
(* Two state machines and one pure function are modelled:                  *)
(*   - StreamPublisherImpl, the writer of one subgroup or fetch stream     *)
(*     (variables stream, ret; specifications SpecSubgroup, SpecFetch);    *)
(*   - MoQSession, the control plane of one session (variable session):    *)
(*     Spec and SpecCredit follow a server session in the publisher's      *)
(*     role, SpecSubscriber, SpecFetchReceiver and SpecAnnounce a client   *)
(*     session in the roles that issue requests.                           *)
(*     SpecSetup follows the setup handshake of either side,               *)
(*     SpecFetchRange and SpecBothRoles a client that is also asked for    *)
(*     tracks, SpecCodec a subscriber whose codecs fail, and SpecWriteLoop *)
(*     a publisher with the steps of its control write loop.               *)
(*                                                                         *)
(* getStreamPriority, the encoder of a stream's priority, is applied to    *)
(* arguments drawn by SpecPriority (variable priority).                    *)
(*                                                                         *)
(* The WebTransport, the frame codec and the application callbacks are     *)
(* collaborators: the model records what the session hands to them and     *)
(* draws what they hand to the session from bounded sets.                  *)
(***************************************************************************)
EXTENDS Integers, Sequences, FiniteSets, TLC

VARIABLES
  \* ---- StreamPublisherImpl and its write handle
  stream,        \* the writer's fields, its write handle's log, its publisher's log
  ret,           \* what the last writer call returned
  \* ---- MoQSession
  session,       \* the session's fields and what it handed to its collaborators
  \* ---- getStreamPriority
  priority       \* the arguments of one call of getStreamPriority and its result

vars == <<stream, ret, session, priority>>

----------------------------------------------------------------------------
(* Bounds of the writer model *)
MaxObjectId == 2
MaxGroup == 1
MaxSubgroup == 1
MaxLength == 2
MaxStreamItems == 3
MaxCompletes == 2
\* (the fetch writer's calls also draw a group and a subgroup: smaller ranges)
MaxFetchObjectId == 1
MaxFetchLength == 1

ObjectIds == 0..MaxObjectId
Groups == 0..MaxGroup
Subgroups == 0..MaxSubgroup
Lengths == 0..MaxLength
FetchObjectIds == 0..MaxFetchObjectId
FetchLengths == 0..MaxFetchLength

\* std::numeric_limits<uint64_t>::max() in header_.id: "no object written yet".
\* Object ids travel as 62-bit varints, so every id an application can
\* publish is below it.
kNoObjectId == MaxObjectId + 1

\* folly::none in currentLengthRemaining_
kNone == -1

GroupOrders == {"OldestFirst", "NewestFirst"}

Directions == {"CLIENT", "SERVER"}

\* The session after its constructor: the counters are zero, the maps
\* empty.  Of the transport, wt is "wt_ is not null" and closeCodes the
\* arguments of its closeSession calls; maxIdsWritten is the record of the
\* MAX_SUBSCRIBE_ID values handed to the frame writers, the setup parameter
\* first.
MoQSession(dir) ==
  [dir |-> dir,
   wt |-> TRUE,
   closeCodes |-> <<>>,
   cancelled |-> FALSE,              \* cancellationSource_
   setupComplete |-> FALSE,
   setupCall |-> "idle",             \* the setup() coroutine
   setupPromise |-> "none",
   peerSetupSeen |-> FALSE,
   draining |-> FALSE,
   dfatal |-> FALSE,                 \* a DFATAL was logged
   fatal |-> FALSE,                  \* a FATAL was logged: the process aborted
   nextSubscribeID |-> 0,
   maxSubscribeID |-> 0,
   peerMaxSubscribeID |-> 0,
   maxConcurrentSubscribes |-> 0,
   closedSubscribes |-> 0,
   pubTracks |-> <<>>,               \* subscribe id -> publisher
   recv |-> <<>>,                    \* subscribe id -> receive state (shared_ptr)
   subTracks |-> {},                 \* aliases mapped to their receive state
   subIdToTrackAlias |-> {},         \* ids mapped to their alias
   fetches |-> {},                   \* ids mapped to their fetch receive state
   announceCalls |-> <<>>,           \* the futures of the announce() calls
   pendingAnnounce |-> <<>>,         \* namespace -> call whose promise it holds
   subscribeAnnouncesCalls |-> <<>>,
   pendingSubscribeAnnounces |-> <<>>,
   controlMessages |-> <<>>,
   controlWriteBuf |-> <<>>,
   controlWriteEvent |-> FALSE,      \* controlWriteEvent_ is signalled
   writeLoop |-> "top",              \* where the controlWriteLoop coroutine is
   written |-> <<>>,                 \* frames writeStreamData took, for the write loop's properties
   maxIdsWritten |-> <<>>,
   streams |-> <<>>,                 \* the readers of the inbound uni streams
   subgroupWriters |-> <<>>]         \* the stream writers beginSubgroup made

----------------------------------------------------------------------------
(* StreamPublisherImpl *)

\* One framed item of writeBuf_ / of the data handed to writeStreamData
\* (of a frame, the kind and the object's position are kept; the payload
\* bytes are not modelled, only their number where the writer counts them)
Item(kind, header) ==
  [kind |-> kind, group |-> header.group, subgroup |-> header.subgroup,
   id |-> header.id]

\* The fetch constructor: header_{subscribeID, group 0, subgroup 0, id max, ...},
\* writeFetchHeader into writeBuf_
FetchWriter(order) ==
  LET h == [group |-> 0, subgroup |-> 0, id |-> kNoObjectId]
  IN [streamType |-> "FETCH_HEADER",
      groupOrder |-> order,
      writeHandle |-> TRUE,
      header |-> h,
      currentLengthRemaining |-> kNone,
      writeBuf |-> <<Item("FETCH_HEADER", h)>>,
      wtData |-> <<>>, wtFin |-> FALSE, wtResets |-> <<>>,
      completes |-> 0, lastReset |-> "none", crashed |-> FALSE,
      stopSending |-> "none"]

\* setGroupAndSubgroup without "header_.id = max" on a group advance
setGroupAndSubgroup_KeepsLastObject(w, groupID, subgroupID) ==
  IF groupID < w.header.group
    THEN [w |-> w, ok |-> FALSE]
    ELSE [w |-> [w EXCEPT !.header.group = groupID,
                          !.header.subgroup = subgroupID],
          ok |-> TRUE]

setGroupAndSubgroup(w, groupID, subgroupID) ==
  IF groupID < w.header.group
    THEN [w |-> w, ok |-> FALSE]
    ELSE [w |-> [w EXCEPT !.header.group = groupID,
                          !.header.subgroup = subgroupID,
                          !.header.id = IF groupID > w.header.group
                                          THEN kNoObjectId ELSE @],
          ok |-> TRUE]

\* The subscribe constructor: delegates to the fetch constructor, then
\* setGroupAndSubgroup and the subgroup header replaces the fetch header
SubgroupWriter(order, groupID, subgroupID) ==
  LET w0 == [FetchWriter(order) EXCEPT !.streamType = "STREAM_HEADER_SUBGROUP"]
      w1 == setGroupAndSubgroup(w0, groupID, subgroupID).w
  IN [w1 EXCEPT !.writeBuf = <<Item("STREAM_HEADER_SUBGROUP", w1.header)>>]

\* publisher_->onStreamComplete(header_): the owning publisher is told
onStreamComplete(w) == [w EXCEPT !.completes = @ + 1]

reset(w, error) ==
  LET w1 == IF w.writeHandle
              THEN [w EXCEPT !.writeHandle = FALSE,
                             !.wtResets = Append(@, error)]
              ELSE w
  IN onStreamComplete([w1 EXCEPT !.lastReset = error])

\* validatePublish with "objectID < header_.id": a repeated id passes
validatePublish_AcceptsEqualId(w, objectID) ==
  IF w.currentLengthRemaining # kNone
    THEN [w |-> reset(w, "INTERNAL_ERROR"), ok |-> FALSE]
  ELSE IF w.header.id # kNoObjectId /\ objectID < w.header.id
    THEN [w |-> reset(w, "INTERNAL_ERROR"), ok |-> FALSE]
  ELSE IF ~w.writeHandle
    THEN [w |-> w, ok |-> FALSE]
  ELSE [w |-> w, ok |-> TRUE]

validatePublish(w, objectID) ==
  IF w.currentLengthRemaining # kNone
    THEN [w |-> reset(w, "INTERNAL_ERROR"), ok |-> FALSE]
  ELSE IF w.header.id # kNoObjectId /\ objectID <= w.header.id
    THEN [w |-> reset(w, "INTERNAL_ERROR"), ok |-> FALSE]
  ELSE IF ~w.writeHandle
    THEN [w |-> w, ok |-> FALSE]
  ELSE [w |-> w, ok |-> TRUE]

\* writeOk: whether the transport's writeStreamData succeeds.
\* writeHandle->writeStreamData on a null handle is a null dereference.
writeToStream(w, finStream, writeOk) ==
  IF ~w.writeHandle
    THEN [w |-> [w EXCEPT !.crashed = TRUE], ret |-> "CRASH"]
  ELSE
    LET w1 == [w EXCEPT !.writeHandle = ~finStream, !.writeBuf = <<>>]
    IN IF writeOk
         THEN LET w2 == [w1 EXCEPT !.wtData = @ \o w.writeBuf,
                                   !.wtFin = finStream]
              IN [w |-> IF finStream THEN onStreamComplete(w2) ELSE w2,
                  ret |-> "OK"]
         ELSE [w |-> reset(w1, "INTERNAL_ERROR"), ret |-> "WRITE_ERROR"]

\* header_.length and header_.status are only framed, never read back: they
\* are not kept
writeCurrentObject(w, objectID, finStream, writeOk) ==
  LET w1 == [w EXCEPT !.header.id = objectID]
      w2 == [w1 EXCEPT !.writeBuf = Append(@, Item("OBJECT", w1.header))]
  IN writeToStream(w2, finStream, writeOk)

\* validateObjectPublishAndUpdateState with "length >= remaining"
validateObjectPublishAndUpdateState_RejectsExactLength(w, length, finStream) ==
  IF w.currentLengthRemaining = kNone
    THEN [w |-> w, res |-> "API_ERROR"]
  ELSE IF length >= w.currentLengthRemaining
    THEN [w |-> reset(w, "INTERNAL_ERROR"), res |-> "API_ERROR"]
  ELSE
    LET left == w.currentLengthRemaining - length
    IN IF finStream
         THEN [w |-> reset([w EXCEPT !.currentLengthRemaining = left],
                           "INTERNAL_ERROR"),
               res |-> "API_ERROR"]
       ELSE [w |-> [w EXCEPT !.currentLengthRemaining = left],
             res |-> "IN_PROGRESS"]

validateObjectPublishAndUpdateState(w, length, finStream) ==
  IF w.currentLengthRemaining = kNone
    THEN [w |-> w, res |-> "API_ERROR"]
  ELSE IF length > w.currentLengthRemaining
    THEN [w |-> reset(w, "INTERNAL_ERROR"), res |-> "API_ERROR"]
  ELSE
    LET left == w.currentLengthRemaining - length
    IN IF left = 0
         THEN [w |-> [w EXCEPT !.currentLengthRemaining = kNone], res |-> "DONE"]
       ELSE IF finStream
         THEN [w |-> reset([w EXCEPT !.currentLengthRemaining = left],
                           "INTERNAL_ERROR"),
               res |-> "API_ERROR"]
       ELSE [w |-> [w EXCEPT !.currentLengthRemaining = left],
             res |-> "IN_PROGRESS"]

\* SubgroupConsumer::object
object(w, objectID, bytes, finStream, writeOk) ==
  LET v == validatePublish(w, objectID)
  IN IF ~v.ok THEN [w |-> v.w, ret |-> "API_ERROR"]
     ELSE writeCurrentObject(v.w, objectID, finStream, writeOk)

publishStatus(w, objectID, status, finStream, writeOk) ==
  LET v == validatePublish(w, objectID)
  IN IF ~v.ok THEN [w |-> v.w, ret |-> "API_ERROR"]
     ELSE writeCurrentObject(v.w, objectID, finStream, writeOk)

objectNotExists(w, objectID, finStream, writeOk) ==
  publishStatus(w, objectID, "OBJECT_NOT_EXIST", finStream, writeOk)

beginObject(w, objectID, length, bytes, writeOk) ==
  LET v == validatePublish(w, objectID)
  IN IF ~v.ok THEN [w |-> v.w, ret |-> "API_ERROR"]
     ELSE LET u == validateObjectPublishAndUpdateState(
                     [v.w EXCEPT !.currentLengthRemaining = length],
                     bytes, FALSE)
          IN IF u.res = "API_ERROR" THEN [w |-> u.w, ret |-> "API_ERROR"]
             ELSE writeCurrentObject(u.w, objectID, FALSE, writeOk)

objectPayload(w, bytes, finStream, writeOk) ==
  LET u == validateObjectPublishAndUpdateState(w, bytes, finStream)
  IN IF u.res = "API_ERROR" THEN [w |-> u.w, ret |-> "API_ERROR"]
     ELSE LET w1 == [u.w EXCEPT !.writeBuf = Append(@, Item("PAYLOAD", u.w.header))]
              r == writeToStream(w1, finStream, writeOk)
          IN IF r.ret = "OK" THEN [w |-> r.w, ret |-> u.res] ELSE r

endOfGroup(w, objectID, writeOk) ==
  publishStatus(w, objectID, "END_OF_GROUP", TRUE, writeOk)

endOfTrackAndGroup(w, objectID, writeOk) ==
  publishStatus(w, objectID, "END_OF_TRACK_AND_GROUP", TRUE, writeOk)

endOfSubgroup(w, writeOk) ==
  IF w.currentLengthRemaining # kNone
    THEN [w |-> reset(w, "INTERNAL_ERROR"), ret |-> "API_ERROR"]
    ELSE writeToStream(w, TRUE, writeOk)

\* writableOk: whether the handle's awaitWritable yields a future
awaitReadyToConsume(w, writableOk) ==
  IF ~w.writeHandle THEN [w |-> w, ret |-> "CANCELLED"]
  ELSE IF ~writableOk THEN [w |-> w, ret |-> "WRITE_ERROR"]
  ELSE [w |-> w, ret |-> "OK"]

\* FetchConsumer overrides
fetchObject(w, groupID, subgroupID, objectID, bytes, finFetch, writeOk) ==
  LET g == setGroupAndSubgroup(w, groupID, subgroupID)
  IN IF ~g.ok THEN [w |-> g.w, ret |-> "API_ERROR"]
     ELSE object(g.w, objectID, bytes, finFetch, writeOk)

fetchObjectNotExists(w, groupID, subgroupID, objectID, finFetch, writeOk) ==
  LET g == setGroupAndSubgroup(w, groupID, subgroupID)
  IN IF ~g.ok THEN [w |-> g.w, ret |-> "API_ERROR"]
     ELSE objectNotExists(g.w, objectID, finFetch, writeOk)

fetchGroupNotExists(w, groupID, subgroupID, finFetch, writeOk) ==
  LET g == setGroupAndSubgroup(w, groupID, subgroupID)
  IN IF ~g.ok THEN [w |-> g.w, ret |-> "API_ERROR"]
     ELSE publishStatus(g.w, 0, "GROUP_NOT_EXIST", finFetch, writeOk)

fetchBeginObject(w, groupID, subgroupID, objectID, length, bytes, writeOk) ==
  LET g == setGroupAndSubgroup(w, groupID, subgroupID)
  IN IF ~g.ok THEN [w |-> g.w, ret |-> "API_ERROR"]
     ELSE beginObject(g.w, objectID, length, bytes, writeOk)

fetchEndOfGroup(w, groupID, subgroupID, objectID, finFetch, writeOk) ==
  LET g == setGroupAndSubgroup(w, groupID, subgroupID)
  IN IF ~g.ok THEN [w |-> g.w, ret |-> "API_ERROR"]
     ELSE publishStatus(g.w, objectID, "END_OF_GROUP", finFetch, writeOk)

fetchEndOfTrackAndGroup(w, groupID, subgroupID, objectID, writeOk) ==
  LET g == setGroupAndSubgroup(w, groupID, subgroupID)
  IN IF ~g.ok THEN [w |-> g.w, ret |-> "API_ERROR"]
     ELSE endOfTrackAndGroup(g.w, objectID, writeOk)

endOfFetch(w, writeOk) ==
  IF ~w.writeHandle THEN [w |-> w, ret |-> "CANCELLED"]
  ELSE endOfSubgroup(w, writeOk)

\* The CancellationCallback registered on the write handle's cancel token
\* (the peer's STOP_SENDING); stopSending records whether it found the
\* handle ("reset") or not ("ignored")
onStopSending(w) ==
  IF w.writeHandle
  THEN [reset(w, "CANCELLED") EXCEPT !.stopSending = "reset"]
  ELSE [w EXCEPT !.stopSending = "ignored"]

----------------------------------------------------------------------------
(* The writer as a state machine: one action per interface method *)

\* The application may call while the process lives
CanCall ==
  /\ ~stream.crashed
  /\ stream.completes < MaxCompletes

\* (the transport's log of the stream is bounded)
----------------------------------------------------------------------------
(* getStreamPriority.  A 64-bit value is the set of the positions of its  *)
(* one bits, position 0 the least significant.                            *)

IdMask == 2097151

\* The one bits of a number below 2^31
Bits(x) == {i \in 0..30 : (x \div 2^i) % 2 = 1}

\* x << n in an unsigned integer of the given width
ShiftLeft(B, n, width) == {i + n : i \in B} \cap (0..(width - 1))

\* a < b for two unsigned values
Below(A, B) ==
  /\ A # B
  /\ LET differ == (A \ B) \cup (B \ A)
         top == CHOOSE i \in differ : \A j \in differ : j <= i
     IN top \in B

groupPriorityBits(groupOrder, group) ==
  LET truncGroup == group % (IdMask + 1)
  IN IF groupOrder = "OldestFirst" THEN truncGroup ELSE IdMask - truncGroup

subgroupPriorityBits(subgroupID) == subgroupID % (IdMask + 1)

\* groupBits is a uint32_t, and so is groupBits << 21
getStreamPriority(groupID, subgroupID, subPri, pubPri, pubGroupOrder) ==
  LET groupBits == groupPriorityBits(pubGroupOrder, groupID)
      subgroupBits == subgroupPriorityBits(subgroupID)
  IN ShiftLeft(Bits(subPri), 50, 64) \cup ShiftLeft(Bits(pubPri), 42, 64)
       \cup ShiftLeft(Bits(groupBits), 21, 32) \cup Bits(subgroupBits)

\* No call of getStreamPriority is followed
NoPriority ==
  [called |-> FALSE, groupID |-> 0, subgroupID |-> 0, subPri |-> 0,
   pubPri |-> 0, pubGroupOrder |-> "OldestFirst", value |-> {}]

Returns(r) ==
  /\ Len(r.w.wtData) + Len(r.w.writeBuf) <= MaxStreamItems
  /\ stream' = [r.w EXCEPT !.lastReset =
                   IF r.w.completes = stream.completes THEN "none" ELSE @]
  /\ ret' = r.ret
  /\ UNCHANGED <<session, priority>>

\* TrackPublisherImpl::beginSubgroup hands out a subgroup writer
SubgroupInit ==
  /\ \E order \in GroupOrders, g \in Groups, sg \in Subgroups :
       stream = SubgroupWriter(order, g, sg)
  /\ ret = "none"
  /\ session = MoQSession("SERVER")
  /\ priority = NoPriority

\* FetchPublisherImpl::beginFetch hands out a fetch writer
FetchInit ==
  /\ \E order \in GroupOrders : stream = FetchWriter(order)
  /\ ret = "none"
  /\ session = MoQSession("SERVER")
  /\ priority = NoPriority

Object ==
  /\ CanCall
  /\ \E id \in ObjectIds, bytes \in Lengths, fin \in BOOLEAN, ok \in BOOLEAN :
       Returns(object(stream, id, bytes, fin, ok))

ObjectNotExists ==
  /\ CanCall
  /\ \E id \in ObjectIds, fin \in BOOLEAN, ok \in BOOLEAN :
       Returns(objectNotExists(stream, id, fin, ok))

BeginObject ==
  /\ CanCall
  /\ \E id \in ObjectIds, length \in Lengths, bytes \in Lengths, ok \in BOOLEAN :
       Returns(beginObject(stream, id, length, bytes, ok))

ObjectPayload ==
  /\ CanCall
  /\ \E bytes \in Lengths, fin \in BOOLEAN, ok \in BOOLEAN :
       Returns(objectPayload(stream, bytes, fin, ok))

EndOfGroup ==
  /\ CanCall
  /\ \E id \in ObjectIds, ok \in BOOLEAN :
       Returns(endOfGroup(stream, id, ok))

EndOfTrackAndGroup ==
  /\ CanCall
  /\ \E id \in ObjectIds, ok \in BOOLEAN :
       Returns(endOfTrackAndGroup(stream, id, ok))

EndOfSubgroup ==
  /\ CanCall
  /\ \E ok \in BOOLEAN :
       Returns(endOfSubgroup(stream, ok))

Reset ==
  /\ CanCall
  /\ \E code \in {"INTERNAL_ERROR", "CANCELLED"} :
       Returns([w |-> reset(stream, code), ret |-> "void"])

AwaitReadyToConsume ==
  /\ CanCall
  /\ \E ok \in BOOLEAN :
       Returns(awaitReadyToConsume(stream, ok))

FetchObject ==
  /\ CanCall
  /\ \E g \in Groups, sg \in Subgroups, id \in FetchObjectIds, bytes \in FetchLengths,
        fin \in BOOLEAN, ok \in BOOLEAN :
       Returns(fetchObject(stream, g, sg, id, bytes, fin, ok))

FetchObjectNotExists ==
  /\ CanCall
  /\ \E g \in Groups, sg \in Subgroups, id \in FetchObjectIds,
        fin \in BOOLEAN, ok \in BOOLEAN :
       Returns(fetchObjectNotExists(stream, g, sg, id, fin, ok))

FetchGroupNotExists ==
  /\ CanCall
  /\ \E g \in Groups, sg \in Subgroups, fin \in BOOLEAN, ok \in BOOLEAN :
       Returns(fetchGroupNotExists(stream, g, sg, fin, ok))

FetchBeginObject ==
  /\ CanCall
  /\ \E g \in Groups, sg \in Subgroups, id \in FetchObjectIds, length \in FetchLengths,
        bytes \in FetchLengths, ok \in BOOLEAN :
       Returns(fetchBeginObject(stream, g, sg, id, length, bytes, ok))

FetchEndOfGroup ==
  /\ CanCall
  /\ \E g \in Groups, sg \in Subgroups, id \in FetchObjectIds,
        fin \in BOOLEAN, ok \in BOOLEAN :
       Returns(fetchEndOfGroup(stream, g, sg, id, fin, ok))

FetchEndOfTrackAndGroup ==
  /\ CanCall
  /\ \E g \in Groups, sg \in Subgroups, id \in FetchObjectIds, ok \in BOOLEAN :
       Returns(fetchEndOfTrackAndGroup(stream, g, sg, id, ok))

EndOfFetch ==
  /\ CanCall
  /\ \E ok \in BOOLEAN :
       Returns(endOfFetch(stream, ok))

StopSending ==
  /\ CanCall
  /\ stream.stopSending = "none"
  /\ Returns([w |-> onStopSending(stream), ret |-> ret])

SubgroupNext ==
  \/ Object \/ ObjectNotExists \/ BeginObject \/ ObjectPayload
  \/ EndOfGroup \/ EndOfTrackAndGroup \/ EndOfSubgroup
  \/ Reset \/ AwaitReadyToConsume \/ StopSending

FetchNext ==
  \/ FetchObject \/ FetchObjectNotExists \/ FetchGroupNotExists
  \/ FetchBeginObject \/ ObjectPayload
  \/ FetchEndOfGroup \/ FetchEndOfTrackAndGroup \/ EndOfFetch
  \/ Reset \/ AwaitReadyToConsume \/ StopSending

SpecSubgroup == SubgroupInit /\ [][SubgroupNext]_vars

SpecFetch == FetchInit /\ [][FetchNext]_vars

----------------------------------------------------------------------------
(* Bounds of the session model *)
MaxPeerId == 1        \* subscribe ids the peer uses in its requests: 0..MaxPeerId
MaxWindow == 2        \* MAX_SUBSCRIBE_ID parameters of the setup messages: 0..MaxWindow
MaxRetired == 2       \* retirements followed in one run
MaxControlBuf == 1    \* frames in controlWriteBuf_ when a handler adds its own
MaxControlMessages == 1  \* messages queued for the application
MaxRequests == 2      \* subscribe() and fetch() calls of the application
MaxNamespace == 1     \* track namespaces announced: 1..MaxNamespace
MaxAnnounceCalls == 2 \* announce() calls, and subscribeAnnounces() calls
MaxSubgroupWriters == 2  \* subgroup streams the track publishers open
MaxUniStreams == 2    \* inbound unidirectional streams
MaxCalls == 2         \* invocations of the consumers of one subscription
MaxDataRequests == 1  \* subscribe() calls followed together with the data streams

PeerIds == 0..MaxPeerId
Windows == 0..MaxWindow
LocalIds == 0..(MaxRequests - 1)
PeerMaxIds == 0..MaxWindow   \* values of inbound MAX_SUBSCRIBE_ID
Namespaces == 1..MaxNamespace

\* One frame in controlWriteBuf_, one message in controlMessages_: its type
\* and the subscribe id (or MAX_SUBSCRIBE_ID value) it carries
Msg(t, v) == [t |-> t, v |-> v]

\* folly::F14 map operations on a function
Erase(m, k) == [x \in DOMAIN m \ {k} |-> m[x]]
Emplace(m, k, v) ==
  IF k \in DOMAIN m THEN m
  ELSE [x \in DOMAIN m \cup {k} |-> IF x = k THEN v ELSE m[x]]

\* Handlers that can close the session have several outcomes (see cleanup):
\* they yield the set of sessions they can leave behind.
Bind(S, f(_)) == UNION {f(x) : x \in S}

\* TrackPublisherImpl / FetchPublisherImpl in pubTracks_.  A track publisher
\* is "ok" once subscribeOk handed it to the application; a fetch publisher
\* is "ok" while its streamPublisher_ is set.
TrackPublisherImpl == [kind |-> "track", ok |-> FALSE, subgroups |-> <<>>]
FetchPublisherImpl == [kind |-> "fetch", ok |-> FALSE]

\* The frame writers (writeSubscribeOk, ...) succeed on every value of the
\* model: they fail only on values that do not fit a varint.  Every handler
\* that writes a frame signals controlWriteEvent_ before it returns.
Write(s, t, v) ==
  [s EXCEPT !.controlWriteBuf = Append(@, Msg(t, v)),
            !.controlWriteEvent = TRUE]

sendMaxSubscribeID(s) ==
  [Write(s, "MAX_SUBSCRIBE_ID", s.maxSubscribeID)
     EXCEPT !.maxIdsWritten = Append(@, s.maxSubscribeID)]

retireSubscribeId_AddsOldCount(s) ==
  LET closed == s.closedSubscribes + 1 IN
  IF closed >= s.maxConcurrentSubscribes \div 2
  THEN sendMaxSubscribeID([s EXCEPT !.maxSubscribeID = @ + s.closedSubscribes,
                                   !.closedSubscribes = 0])
  ELSE [s EXCEPT !.closedSubscribes = closed]

retireSubscribeId_IssuesAboveHalf(s) ==
  LET closed == s.closedSubscribes + 1 IN
  IF closed > s.maxConcurrentSubscribes \div 2
  THEN sendMaxSubscribeID([s EXCEPT !.maxSubscribeID = @ + closed,
                                   !.closedSubscribes = 0])
  ELSE [s EXCEPT !.closedSubscribes = closed]

\* MoQSession::retireSubscribeId
retireSubscribeId(s) ==
  LET closed == s.closedSubscribes + 1 IN
  IF closed >= s.maxConcurrentSubscribes \div 2
  THEN sendMaxSubscribeID([s EXCEPT !.maxSubscribeID = @ + closed,
                                   !.closedSubscribes = 0])
  ELSE [s EXCEPT !.closedSubscribes = closed]

\* MoQSession::fetchComplete
fetchComplete(s, id) ==
  IF id \notin DOMAIN s.pubTracks THEN s
  ELSE retireSubscribeId([s EXCEPT !.pubTracks = Erase(@, id)])

\* TrackPublisherImpl::reset: its body is empty
trackPublisherReset(s, id, error) == s

\* The track publishers of pubTracks_, reset one after the other
RECURSIVE ResetTrackPublishers(_, _)
ResetTrackPublishers(s, ids) ==
  IF ids = {} THEN s
  ELSE LET id == CHOOSE i \in ids : TRUE IN
       ResetTrackPublishers(trackPublisherReset(s, id, "SESSION_CLOSED"), ids \ {id})

RECURSIVE RetireTimes(_, _)
RetireTimes(s, n) == IF n = 0 THEN s ELSE RetireTimes(retireSubscribeId(s), n - 1)

\* SubscribeTrackReceiveState / FetchTrackReceiveState.  subscribe() always
\* uses the subscribe id as track alias, so the state that subTracks_ holds
\* under alias a is recv[a].  promise is the state of promise_: "pending", or
\* the result its future got ("ok", "error" from the peer, "closed" for the
\* 500 of cleanup); overset records a setValue on a fulfilled promise;
\* doneCalls counts the consumer's subscribeDone invocations and calls the
\* invocations of its other methods and of its subgroup consumers; reader is
\* whether the reader of a fetch stream holds the state.
SubscribeTrackReceiveState ==
  [kind |-> "subscribe", callback |-> TRUE, cancelled |-> FALSE,
   promise |-> "pending", overset |-> FALSE, doneCalls |-> 0, calls |-> 0,
   reader |-> FALSE]
FetchTrackReceiveState ==
  [kind |-> "fetch", callback |-> TRUE, cancelled |-> FALSE,
   promise |-> "pending", overset |-> FALSE, doneCalls |-> 0, calls |-> 0,
   reader |-> FALSE]

isFulfilled(st) == st.promise # "pending"

\* SubscribeTrackReceiveState::subscribeDone
stateSubscribeDone(st) ==
  IF st.callback THEN [st EXCEPT !.doneCalls = @ + 1] ELSE st

\* SubscribeTrackReceiveState::subscribeOK: sets the promise unguarded
stateSubscribeOK(st) ==
  IF isFulfilled(st) THEN [st EXCEPT !.overset = TRUE]
  ELSE [st EXCEPT !.promise = "ok"]

\* SubscribeTrackReceiveState::subscribeError
stateSubscribeError(st, result) ==
  IF ~isFulfilled(st) THEN [st EXCEPT !.promise = result]
  ELSE stateSubscribeDone(st)

\* FetchTrackReceiveState::fetchOK: sets the promise unguarded
stateFetchOK(st) ==
  IF isFulfilled(st) THEN [st EXCEPT !.overset = TRUE]
  ELSE [st EXCEPT !.promise = "ok"]

\* FetchTrackReceiveState::fetchError
stateFetchError(st, result) ==
  IF ~isFulfilled(st) THEN [st EXCEPT !.promise = result] ELSE st

fetchOkAndAllDataReceived(st) == isFulfilled(st) /\ ~st.callback

\* The fetch publishers whose stream writer is set
OpenFetches(s) ==
  {id \in DOMAIN s.pubTracks :
     s.pubTracks[id].kind = "fetch" /\ s.pubTracks[id].ok}

\* MoQSession::cleanup.  Resetting a fetch publisher whose stream is open
\* completes the stream, and FetchPublisherImpl::onStreamComplete erases the
\* publisher from pubTracks_ while the loop iterates over it: how many of the
\* open fetch publishers the loop still reaches after the first is not
\* defined.  Each one reached is retired.  TrackPublisherImpl::reset is empty.
cleanup(s) ==
  LET F == OpenFetches(s)
      reached == IF F = {} THEN {0} ELSE 1..Cardinality(F)
      receivers(t) ==
        [t EXCEPT
           !.pubTracks = <<>>,
           !.recv = [id \in DOMAIN t.recv |->
                       IF id \in t.subTracks
                       THEN stateSubscribeError(t.recv[id], "closed")
                       ELSE IF id \in t.fetches
                       THEN stateFetchError(t.recv[id], "closed")
                       ELSE t.recv[id]],
           !.subTracks = {},
           !.fetches = {},
           !.announceCalls = [i \in DOMAIN t.announceCalls |->
              IF \E ns \in DOMAIN t.pendingAnnounce : t.pendingAnnounce[ns] = i
              THEN "closed" ELSE t.announceCalls[i]],
           !.pendingAnnounce = <<>>,
           !.subscribeAnnouncesCalls = [i \in DOMAIN t.subscribeAnnouncesCalls |->
              IF \E ns \in DOMAIN t.pendingSubscribeAnnounces :
                   t.pendingSubscribeAnnounces[ns] = i
              THEN "closed" ELSE t.subscribeAnnouncesCalls[i]],
           !.pendingSubscribeAnnounces = <<>>,
           !.cancelled = TRUE]
      tracks == {id \in DOMAIN s.pubTracks : s.pubTracks[id].kind = "track"}
  IN {receivers(RetireTimes(ResetTrackPublishers(s, tracks), k)) : k \in reached}

close_KeepsTransport(s, error) ==
  IF s.wt
  THEN {[c EXCEPT !.closeCodes = Append(@, error), !.cancelled = TRUE] :
          c \in cleanup(s)}
  ELSE {s}

\* MoQSession::close
close(s, error) ==
  IF s.wt
  THEN {[c EXCEPT !.closeCodes = Append(@, error), !.cancelled = TRUE] :
          c \in cleanup([s EXCEPT !.wt = FALSE])}
  ELSE {s}

checkForCloseOnDrain_IgnoresFetches(s) ==
  IF s.draining /\ s.subTracks = {}
  THEN close(s, "NO_ERROR") ELSE {s}

\* MoQSession::checkForCloseOnDrain
checkForCloseOnDrain(s) ==
  IF s.draining /\ s.fetches = {} /\ s.subTracks = {}
  THEN close(s, "NO_ERROR") ELSE {s}

\* MoQSession::drain
drain(s) == checkForCloseOnDrain([s EXCEPT !.draining = TRUE])

closeSessionIfSubscribeIdInvalid_AcceptsEqual(s, subscribeID) ==
  IF s.maxSubscribeID < subscribeID
  THEN {[s |-> c, ret |-> TRUE] : c \in close(s, "TOO_MANY_SUBSCRIBES")}
  ELSE {[s |-> s, ret |-> FALSE]}

closeSessionIfSubscribeIdInvalid(s, subscribeID) ==
  IF s.maxSubscribeID <= subscribeID
  THEN {[s |-> c, ret |-> TRUE] : c \in close(s, "TOO_MANY_SUBSCRIBES")}
  ELSE {[s |-> s, ret |-> FALSE]}

\* Setup parameters: a list of (key, value); MAX_SUBSCRIBE_ID may be absent
SetupParams ==
  {<<>>} \cup
  {<<[key |-> "MAX_SUBSCRIBE_ID", asUint64 |-> w]>> : w \in Windows} \cup
  {<<[key |-> "ROLE", asUint64 |-> 0],
     [key |-> "MAX_SUBSCRIBE_ID", asUint64 |-> w]>> : w \in Windows}

RECURSIVE getMaxSubscribeIdIfPresent(_)
getMaxSubscribeIdIfPresent(params) ==
  IF params = <<>> THEN 0
  ELSE IF Head(params).key = "MAX_SUBSCRIBE_ID" THEN Head(params).asUint64
  ELSE getMaxSubscribeIdIfPresent(Tail(params))

\* MoQSession::setup, up to its co_await of the SERVER_SETUP
setup(s, params) ==
  LET maxSubscribeId == getMaxSubscribeIdIfPresent(params) IN
  [Write(s, "CLIENT_SETUP", maxSubscribeId) EXCEPT
     !.setupPromise = "pending",
     !.maxSubscribeID = maxSubscribeId,
     !.maxConcurrentSubscribes = maxSubscribeId,
     !.maxIdsWritten = <<maxSubscribeId>>,
     !.setupCall = "awaiting"]

\* MoQSession::setup, from the co_await on: the future has a value or an
\* exception, or the timeout or the cancellation ended the wait
setupResumes(s, timedOut) ==
  IF s.cancelled THEN {[s EXCEPT !.setupCall = "error"]}
  ELSE IF timedOut \/ s.setupPromise = "exception"
  THEN {[c EXCEPT !.setupCall = "error"] : c \in close(s, "INTERNAL_ERROR")}
  ELSE {[s EXCEPT !.setupComplete = TRUE, !.setupCall = "returned"]}

onServerSetup_AcceptsAnyVersion(s, versionOk, params) ==
  {[s EXCEPT !.peerMaxSubscribeID = getMaxSubscribeIdIfPresent(params),
             !.setupPromise = "value",
             !.peerSetupSeen = TRUE]}

\* MoQSession::onServerSetup
onServerSetup(s, versionOk, params) ==
  IF ~versionOk
  THEN {[c EXCEPT !.setupPromise = "exception", !.peerSetupSeen = TRUE] :
          c \in close(s, "PROTOCOL_VIOLATION")}
  ELSE {[s EXCEPT !.peerMaxSubscribeID = getMaxSubscribeIdIfPresent(params),
                  !.setupPromise = "value",
                  !.peerSetupSeen = TRUE]}

\* MoQSession::onClientSetup; callbackOk is whether the application's
\* ServerSetupCallback returned a SERVER_SETUP, params are its parameters
onClientSetup(s, versionOk, peerParams, callbackOk, params) ==
  IF ~versionOk
  THEN {[c EXCEPT !.peerSetupSeen = TRUE] : c \in close(s, "PROTOCOL_VIOLATION")}
  ELSE LET t == [s EXCEPT
                   !.peerMaxSubscribeID = getMaxSubscribeIdIfPresent(peerParams),
                   !.peerSetupSeen = TRUE]
           maxSubscribeId == getMaxSubscribeIdIfPresent(params)
       IN IF ~callbackOk THEN close(t, "INTERNAL_ERROR")
          ELSE {[Write(t, "SERVER_SETUP", maxSubscribeId) EXCEPT
                   !.maxSubscribeID = maxSubscribeId,
                   !.maxConcurrentSubscribes = maxSubscribeId,
                   !.maxIdsWritten = <<maxSubscribeId>>,
                   !.setupComplete = TRUE,
                   !.setupPromise = "value"]}

\* MoQSession::controlWriteLoop: one round, from the signal to the next
\* wait: the buffer goes to the stream, and the loop finds it empty and
\* resets the event
controlWriteLoop(s) ==
  [s EXCEPT !.controlWriteBuf = <<>>, !.controlWriteEvent = FALSE]

enqueue(s, t, v) == [s EXCEPT !.controlMessages = Append(@, Msg(t, v))]

\* MoQSession::subscribeError
subscribeError(s, id) ==
  IF id \notin DOMAIN s.pubTracks THEN s
  ELSE retireSubscribeId(
         Write([s EXCEPT !.pubTracks = Erase(@, id)], "SUBSCRIBE_ERROR", id))

\* MoQSession::subscribeDone
subscribeDone(s, id) ==
  IF id \notin DOMAIN s.pubTracks THEN s
  ELSE retireSubscribeId(
         Write([s EXCEPT !.pubTracks = Erase(@, id)], "SUBSCRIBE_DONE", id))

\* MoQSession::subscribeOk
subscribeOk(s, id) ==
  IF id \notin DOMAIN s.pubTracks THEN s
  ELSE IF s.pubTracks[id].kind # "track" THEN subscribeError(s, id)
  ELSE Write([s EXCEPT !.pubTracks[id].ok = TRUE], "SUBSCRIBE_OK", id)

\* MoQSession::fetchError; the FETCH_ERROR frame carries the error code
fetchError(s, id, errorCode) ==
  [s EXCEPT !.pubTracks = Erase(@, id),
            !.controlWriteBuf =
               Append(@, [t |-> "FETCH_ERROR", v |-> id, errorCode |-> errorCode]),
            !.controlWriteEvent = TRUE]

\* MoQSession::fetchOk with FetchPublisherImpl::beginFetch; streamOk is
\* whether the transport granted a unidirectional stream
fetchOk(s, id, streamOk) ==
  IF id \notin DOMAIN s.pubTracks THEN s
  ELSE IF s.pubTracks[id].kind # "fetch" THEN fetchError(s, id, "INTERNAL_ERROR")
  ELSE IF ~s.wt \/ ~streamOk THEN fetchError(s, id, "INTERNAL_ERROR")
  ELSE Write([s EXCEPT !.pubTracks[id].ok = TRUE], "FETCH_OK", id)

\* FetchPublisherImpl::onStreamComplete: the fetch stream reached its end
\* (fin, reset by the application, write error or stop-sending)
fetchStreamComplete(s, id) ==
  fetchComplete([s EXCEPT !.pubTracks[id].ok = FALSE], id)

\* MoQSession::onSubscribe
onSubscribe(s, id) ==
  Bind(closeSessionIfSubscribeIdInvalid(s, id), LAMBDA r :
    IF r.ret THEN {r.s}
    ELSE IF id \in DOMAIN r.s.pubTracks THEN {subscribeError(r.s, id)}
    ELSE {enqueue([r.s EXCEPT !.pubTracks = Emplace(@, id, TrackPublisherImpl)],
                  "SUBSCRIBE", id)})

\* MoQSession::onSubscribeUpdate
onSubscribeUpdate(s, id) ==
  IF id \notin DOMAIN s.pubTracks THEN {s}
  ELSE Bind(closeSessionIfSubscribeIdInvalid(s, id), LAMBDA r :
         IF r.ret THEN {r.s} ELSE {enqueue(r.s, "SUBSCRIBE_UPDATE", id)})

\* MoQSession::onUnsubscribe
onUnsubscribe(s, id) == enqueue(s, "UNSUBSCRIBE", id)

onFetch_SkipsRangeCheck(s, id, rangeOk) ==
  Bind(closeSessionIfSubscribeIdInvalid(s, id), LAMBDA r :
    IF r.ret THEN {r.s}
    ELSE IF id \in DOMAIN r.s.pubTracks THEN {fetchError(r.s, id, "400")}
    ELSE {enqueue([r.s EXCEPT !.pubTracks = Emplace(@, id, FetchPublisherImpl)],
                  "FETCH", id)})

\* MoQSession::onFetch; rangeOk is "not (end < start)"
onFetch(s, id, rangeOk) ==
  Bind(closeSessionIfSubscribeIdInvalid(s, id), LAMBDA r :
    IF r.ret THEN {r.s}
    ELSE IF ~rangeOk THEN {fetchError(r.s, id, "INVALID_RANGE")}
    ELSE IF id \in DOMAIN r.s.pubTracks THEN {fetchError(r.s, id, "400")}
    ELSE {enqueue([r.s EXCEPT !.pubTracks = Emplace(@, id, FetchPublisherImpl)],
                  "FETCH", id)})

\* MoQSession::onFetchCancel, with the reset of the publisher it finds: a
\* fetch publisher resets its stream writer, whose completion runs
\* fetchComplete; a track publisher's reset does nothing
onFetchCancel(s, id) ==
  IF id \notin DOMAIN s.pubTracks THEN s
  ELSE IF id \in OpenFetches(s)
  THEN retireSubscribeId(fetchStreamComplete(s, id))
  ELSE retireSubscribeId(s)

----------------------------------------------------------------------------
(* MoQSession in the subscriber's role *)

\* MoQSession::subscribe, up to its co_await of the reply.  The id is new,
\* so neither XCHECK on a duplicate id or alias can fire.
subscribe(s) ==
  LET subID == s.nextSubscribeID IN
  [Write(s, "SUBSCRIBE", subID) EXCEPT
     !.nextSubscribeID = @ + 1,
     !.subIdToTrackAlias = @ \cup {subID},
     !.recv = Emplace(@, subID, SubscribeTrackReceiveState),
     !.subTracks = @ \cup {subID}]

\* MoQSession::fetch, up to its co_await of the reply
fetch(s) ==
  LET subID == s.nextSubscribeID IN
  [Write(s, "FETCH", subID) EXCEPT
     !.nextSubscribeID = @ + 1,
     !.recv = Emplace(@, subID, FetchTrackReceiveState),
     !.fetches = @ \cup {subID}]

\* MoQSession::unsubscribe, with SubscribeTrackReceiveState::cancel
unsubscribe(s, id) ==
  IF id \notin s.subIdToTrackAlias THEN s
  ELSE IF id \notin s.subTracks THEN s
  ELSE Write([s EXCEPT !.recv[id].callback = FALSE, !.recv[id].cancelled = TRUE],
             "UNSUBSCRIBE", id)

\* FetchTrackReceiveState::resetFetchCallback
resetFetchCallback(s, id) ==
  LET t == [s EXCEPT !.recv[id].callback = FALSE] IN
  IF fetchOkAndAllDataReceived(t.recv[id])
  THEN checkForCloseOnDrain([t EXCEPT !.fetches = @ \ {id}])
  ELSE {t}

\* MoQSession::fetchCancel, with FetchTrackReceiveState::cancel
fetchCancel(s, id) ==
  IF id \notin s.fetches THEN {s}
  ELSE {Write(c, "FETCH_CANCEL", id) :
          c \in resetFetchCallback([s EXCEPT !.recv[id].cancelled = TRUE], id)}

\* ObjectStreamCallback::onFetchHeader: the reader of a fetch stream takes
\* a reference to the receive state it finds in fetches_
onFetchHeader(s, id) ==
  IF id \notin s.fetches THEN s ELSE [s EXCEPT !.recv[id].reader = TRUE]

\* ObjectStreamCallback::endOfSubgroup on a fetch stream (end of the stream
\* or its reset)
fetchStreamEnds(s, id) ==
  resetFetchCallback([s EXCEPT !.recv[id].reader = FALSE], id)

\* MoQSession::onSubscribeOk
onSubscribeOk(s, id) ==
  IF id \notin s.subIdToTrackAlias THEN s
  ELSE IF id \in s.subTracks
  THEN [s EXCEPT !.recv[id] = stateSubscribeOK(@)]
  ELSE s

\* MoQSession::onSubscribeError
onSubscribeError(s, id) ==
  IF id \notin s.subIdToTrackAlias THEN {s}
  ELSE IF id \in s.subTracks
  THEN checkForCloseOnDrain(
         [s EXCEPT !.recv[id] = stateSubscribeError(@, "error"),
                   !.subTracks = @ \ {id},
                   !.subIdToTrackAlias = @ \ {id}])
  ELSE {s}

onSubscribeDone_KeepsIndex(s, id) ==
  IF id \notin s.subIdToTrackAlias THEN {s}
  ELSE checkForCloseOnDrain(
         IF id \in s.subTracks
         THEN [s EXCEPT !.subTracks = @ \ {id},
                        !.recv[id] = stateSubscribeDone(@)]
         ELSE [s EXCEPT !.dfatal = TRUE])

\* MoQSession::onSubscribeDone.  Without a receive state under the alias it
\* logs DFATAL, which aborts a debug build: dfatal records it.
onSubscribeDone(s, id) ==
  IF id \notin s.subIdToTrackAlias THEN {s}
  ELSE LET t == IF id \in s.subTracks
                THEN [s EXCEPT !.subTracks = @ \ {id},
                               !.recv[id] = stateSubscribeDone(@)]
                ELSE [s EXCEPT !.dfatal = TRUE]
       IN checkForCloseOnDrain([t EXCEPT !.subIdToTrackAlias = @ \ {id}])

onMaxSubscribeId_AcceptsEqual(s, v) ==
  IF v >= s.peerMaxSubscribeID
  THEN {[s EXCEPT !.peerMaxSubscribeID = v]}
  ELSE close(s, "PROTOCOL_VIOLATION")

\* MoQSession::onMaxSubscribeId
onMaxSubscribeId(s, v) ==
  IF v > s.peerMaxSubscribeID
  THEN {[s EXCEPT !.peerMaxSubscribeID = v]}
  ELSE close(s, "PROTOCOL_VIOLATION")

onFetchOk_KeepsEntry(s, id) ==
  IF id \notin s.fetches THEN {s}
  ELSE {[s EXCEPT !.recv[id] = stateFetchOK(@)]}

\* MoQSession::onFetchOk
onFetchOk(s, id) ==
  IF id \notin s.fetches THEN {s}
  ELSE LET t == [s EXCEPT !.recv[id] = stateFetchOK(@)] IN
       IF fetchOkAndAllDataReceived(t.recv[id])
       THEN checkForCloseOnDrain([t EXCEPT !.fetches = @ \ {id}])
       ELSE {t}

\* MoQSession::onFetchError
onFetchError(s, id) ==
  IF id \notin s.fetches THEN {s}
  ELSE checkForCloseOnDrain(
         [s EXCEPT !.recv[id] = stateFetchError(@, "error"),
                   !.fetches = @ \ {id}])

\* MoQSession::announce, up to its co_await of the reply.  With a request
\* for the namespace already pending, emplace leaves the map as it is: the
\* new promise is either destroyed with the node emplace built for it (the
\* future gets a broken promise) or stays in the coroutine frame, never
\* fulfilled.
announce(s, ns) ==
  LET t == Write(s, "ANNOUNCE", ns)
      i == Len(s.announceCalls) + 1
  IN IF ns \in DOMAIN s.pendingAnnounce
     THEN {[t EXCEPT !.announceCalls = Append(@, result)] :
             result \in {"broken", "unfulfilled"}}
     ELSE {[t EXCEPT !.announceCalls = Append(@, "pending"),
                     !.pendingAnnounce = Emplace(@, ns, i)]}

\* MoQSession::onAnnounceOk
onAnnounceOk(s, ns) ==
  IF ns \notin DOMAIN s.pendingAnnounce THEN s
  ELSE [s EXCEPT !.announceCalls[s.pendingAnnounce[ns]] = "ok",
                 !.pendingAnnounce = Erase(@, ns)]

\* MoQSession::onAnnounceError
onAnnounceError(s, ns) ==
  IF ns \notin DOMAIN s.pendingAnnounce THEN s
  ELSE [s EXCEPT !.announceCalls[s.pendingAnnounce[ns]] = "error",
                 !.pendingAnnounce = Erase(@, ns)]

\* MoQSession::subscribeAnnounces, up to its co_await of the reply
subscribeAnnounces(s, ns) ==
  LET t == Write(s, "SUBSCRIBE_ANNOUNCES", ns)
      i == Len(s.subscribeAnnouncesCalls) + 1
  IN IF ns \in DOMAIN s.pendingSubscribeAnnounces
     THEN {[t EXCEPT !.subscribeAnnouncesCalls = Append(@, result)] :
             result \in {"broken", "unfulfilled"}}
     ELSE {[t EXCEPT !.subscribeAnnouncesCalls = Append(@, "pending"),
                     !.pendingSubscribeAnnounces = Emplace(@, ns, i)]}

\* MoQSession::onSubscribeAnnouncesOk
onSubscribeAnnouncesOk(s, ns) ==
  IF ns \notin DOMAIN s.pendingSubscribeAnnounces THEN s
  ELSE [s EXCEPT
          !.subscribeAnnouncesCalls[s.pendingSubscribeAnnounces[ns]] = "ok",
          !.pendingSubscribeAnnounces = Erase(@, ns)]

\* MoQSession::onSubscribeAnnouncesError
onSubscribeAnnouncesError(s, ns) ==
  IF ns \notin DOMAIN s.pendingSubscribeAnnounces THEN s
  ELSE [s EXCEPT
          !.subscribeAnnouncesCalls[s.pendingSubscribeAnnounces[ns]] = "error",
          !.pendingSubscribeAnnounces = Erase(@, ns)]

----------------------------------------------------------------------------
(* The session as a state machine *)

\* The subscribe ids retired since the setup: those already issued to the
\* peer as credit and those counted in closedSubscribes_
Retired(s) == s.maxSubscribeID - s.maxConcurrentSubscribes + s.closedSubscribes

\* The outcomes a run follows: a handler that adds frames runs while
\* controlWriteBuf_ holds fewer than MaxControlBuf of them, and retirements
\* are followed until the threshold of the window was crossed once, and at
\* least MaxRetired of them.
Bounded(s) ==
  LET threshold == s.maxConcurrentSubscribes \div 2 IN
  /\ \/ Len(s.controlWriteBuf) <= Len(session.controlWriteBuf)
     \/ Len(session.controlWriteBuf) < MaxControlBuf
  /\ Len(s.controlMessages) <= MaxControlMessages
  /\ s.nextSubscribeID <= MaxRequests
  /\ Len(s.announceCalls) <= MaxAnnounceCalls
  /\ Len(s.subscribeAnnouncesCalls) <= MaxAnnounceCalls
  /\ Len(s.streams) <= MaxUniStreams
  /\ Len(s.subgroupWriters) <= MaxSubgroupWriters
  /\ \A id \in DOMAIN s.recv : s.recv[id].calls <= MaxCalls
  /\ Retired(s) <= (IF threshold > MaxRetired THEN threshold ELSE MaxRetired)

\* A handler ran and left one of its outcomes
Becomes(S) ==
  /\ ~session.fatal
  /\ \E r \in S : Bounded(r) /\ session' = r
  /\ UNCHANGED <<stream, ret, priority>>

\* The session after its constructor; the specifications of the session
\* leave the stream writer alone.
SessionInit(dir) ==
  /\ session = MoQSession(dir)
  /\ stream = FetchWriter("OldestFirst")
  /\ ret = "none"
  /\ priority = NoPriority

\* The application calls setup() once, on a client session
Setup(params) ==
  /\ session.dir = "CLIENT"
  /\ session.setupCall = "idle"
  /\ Becomes({setup(session, params)})

SetupResumes ==
  /\ session.setupCall = "awaiting"
  /\ \E timedOut \in BOOLEAN :
       /\ ~timedOut => (session.setupPromise # "pending" \/ session.cancelled)
       /\ Becomes(setupResumes(session, timedOut))

\* The peer's setup message is the first message of the control stream and
\* the codec delivers it once; a client reads after it called setup()
OnServerSetup(params) ==
  /\ session.dir = "CLIENT"
  /\ session.setupCall # "idle"
  /\ ~session.peerSetupSeen
  /\ \E versionOk \in BOOLEAN : Becomes(onServerSetup(session, versionOk, params))

OnClientSetup(peerParams, params) ==
  /\ session.dir = "SERVER"
  /\ ~session.peerSetupSeen
  /\ \E versionOk, callbackOk \in BOOLEAN :
       Becomes(onClientSetup(session, versionOk, peerParams, callbackOk, params))

ControlWriteLoop ==
  /\ session.controlWriteBuf # <<>>
  /\ ~session.cancelled
  /\ Becomes({controlWriteLoop(session)})

\* The application takes the next message from controlMessages()
ControlMessages ==
  /\ session.controlMessages # <<>>
  /\ ~session.cancelled
  /\ Becomes({[session EXCEPT !.controlMessages = Tail(@)]})

\* The application closes the session
Close(error) == Becomes(close(session, error))

Drain == Becomes(drain(session))

OnSubscribe(id) == Becomes(onSubscribe(session, id))

OnSubscribeUpdate(id) == Becomes(onSubscribeUpdate(session, id))

OnUnsubscribe(id) == Becomes({onUnsubscribe(session, id)})

OnFetch(id) == \E rangeOk \in BOOLEAN : Becomes(onFetch(session, id, rangeOk))

OnFetchCancel(id) == Becomes({onFetchCancel(session, id)})

SubscribeOk(id) == Becomes({subscribeOk(session, id)})

SubscribeError(id) == Becomes({subscribeError(session, id)})

\* PublisherImpl::subscribeDone, on the TrackConsumer that subscribeOk returned
SubscribeDone(id) ==
  /\ id \in DOMAIN session.pubTracks
  /\ session.pubTracks[id].kind = "track"
  /\ session.pubTracks[id].ok
  /\ Becomes({subscribeDone(session, id)})

FetchOk(id) == \E streamOk \in BOOLEAN : Becomes({fetchOk(session, id, streamOk)})

\* The application refuses a fetch
FetchError(id) == Becomes({fetchError(session, id, "TRACK_NOT_EXIST")})

FetchStreamComplete(id) ==
  /\ id \in OpenFetches(session)
  /\ Becomes({fetchStreamComplete(session, id)})

\* The peer's own window plays no role in the publisher's role
PeerSetupParams == {<<>>, <<[key |-> "MAX_SUBSCRIBE_ID", asUint64 |-> MaxWindow]>>}

\* The session in the publisher's role: the peer subscribes and fetches
PublisherNext ==
  \/ \E peerParams \in PeerSetupParams, params \in SetupParams :
       OnClientSetup(peerParams, params)
  \/ ControlWriteLoop
  \/ ControlMessages
  \/ \E error \in {"NO_ERROR", "INTERNAL_ERROR"} : Close(error)
  \/ \E id \in PeerIds : OnSubscribe(id)
  \/ \E id \in PeerIds : OnSubscribeUpdate(id)
  \/ \E id \in PeerIds : OnUnsubscribe(id)
  \/ \E id \in PeerIds : OnFetch(id)
  \/ \E id \in PeerIds : OnFetchCancel(id)
  \/ \E id \in PeerIds : SubscribeOk(id)
  \/ \E id \in PeerIds : SubscribeError(id)
  \/ \E id \in PeerIds : SubscribeDone(id)
  \/ \E id \in PeerIds : FetchOk(id)
  \/ \E id \in PeerIds : FetchError(id)
  \/ \E id \in PeerIds : FetchStreamComplete(id)

Spec == SessionInit("SERVER") /\ [][PublisherNext]_vars

\* ---- the subscriber's role

\* The application issues its requests once the setup has completed
Subscribe ==
  /\ session.setupComplete
  /\ Becomes({subscribe(session)})

Fetch ==
  /\ session.setupComplete
  /\ Becomes({fetch(session)})

Unsubscribe(id) == Becomes({unsubscribe(session, id)})

FetchCancel(id) == Becomes(fetchCancel(session, id))

OnFetchHeader(id) == Becomes({onFetchHeader(session, id)})

FetchStreamEnds(id) ==
  /\ id \in DOMAIN session.recv
  /\ session.recv[id].reader
  /\ Becomes(fetchStreamEnds(session, id))

OnSubscribeOk(id) == Becomes({onSubscribeOk(session, id)})

OnSubscribeError(id) == Becomes(onSubscribeError(session, id))

OnSubscribeDone(id) == Becomes(onSubscribeDone(session, id))

OnMaxSubscribeId(v) == Becomes(onMaxSubscribeId(session, v))

OnFetchOk(id) == Becomes(onFetchOk(session, id))

OnFetchError(id) == Becomes(onFetchError(session, id))

Announce(ns) ==
  /\ session.setupComplete
  /\ Becomes(announce(session, ns))

OnAnnounceOk(ns) == Becomes({onAnnounceOk(session, ns)})

OnAnnounceError(ns) == Becomes({onAnnounceError(session, ns)})

SubscribeAnnounces(ns) ==
  /\ session.setupComplete
  /\ Becomes(subscribeAnnounces(session, ns))

OnSubscribeAnnouncesOk(ns) == Becomes({onSubscribeAnnouncesOk(session, ns)})

OnSubscribeAnnouncesError(ns) == Becomes({onSubscribeAnnouncesError(session, ns)})

\* The session's own window plays no role in the subscriber's role
OwnSetupParams == {<<[key |-> "MAX_SUBSCRIBE_ID", asUint64 |-> MaxWindow]>>}

\* The peer's windows in the subscriber's role: MAX_SUBSCRIBE_ID absent or 1
SubscriberPeerParams == {<<>>, <<[key |-> "MAX_SUBSCRIBE_ID", asUint64 |-> 1]>>}

SubscriberNext ==
  \/ \E params \in OwnSetupParams : Setup(params)
  \/ SetupResumes
  \/ \E params \in SubscriberPeerParams : OnServerSetup(params)
  \/ ControlWriteLoop
  \/ Close("NO_ERROR")
  \/ Drain
  \/ Subscribe
  \/ \E id \in LocalIds : Unsubscribe(id)
  \/ \E id \in LocalIds : OnSubscribeOk(id)
  \/ \E id \in LocalIds : OnSubscribeError(id)
  \/ \E id \in LocalIds : OnSubscribeDone(id)
  \/ \E v \in PeerMaxIds : OnMaxSubscribeId(v)

SpecSubscriber == SessionInit("CLIENT") /\ [][SubscriberNext]_vars

FetchReceiverNext ==
  \/ \E params \in OwnSetupParams : Setup(params)
  \/ SetupResumes
  \/ \E params \in PeerSetupParams : OnServerSetup(params)
  \/ ControlWriteLoop
  \/ Close("NO_ERROR")
  \/ Drain
  \/ Fetch
  \/ \E id \in LocalIds : FetchCancel(id)
  \/ \E id \in LocalIds : OnFetchHeader(id)
  \/ \E id \in LocalIds : FetchStreamEnds(id)
  \/ \E id \in LocalIds : OnFetchOk(id)
  \/ \E id \in LocalIds : OnFetchError(id)

SpecFetchReceiver == SessionInit("CLIENT") /\ [][FetchReceiverNext]_vars

AnnounceNext ==
  \/ \E params \in OwnSetupParams : Setup(params)
  \/ SetupResumes
  \/ \E params \in PeerSetupParams : OnServerSetup(params)
  \/ ControlWriteLoop
  \/ Close("NO_ERROR")
  \/ \E ns \in Namespaces : Announce(ns)
  \/ \E ns \in Namespaces : OnAnnounceOk(ns)
  \/ \E ns \in Namespaces : OnAnnounceError(ns)
  \/ \E ns \in Namespaces : SubscribeAnnounces(ns)
  \/ \E ns \in Namespaces : OnSubscribeAnnouncesOk(ns)
  \/ \E ns \in Namespaces : OnSubscribeAnnouncesError(ns)

SpecAnnounce == SessionInit("CLIENT") /\ [][AnnounceNext]_vars

----------------------------------------------------------------------------
(* Properties of the stream writer *)

\* The objects the transport accepted on the stream, in write order
WrittenObjects(w) == SelectSeq(w.wtData, LAMBDA it : it.kind = "OBJECT")

\* The outcome of a publish call that validatePublish's id check refuses:
\* nothing reaches the transport, reset(INTERNAL_ERROR) runs (resetting the
\* transport stream if it is still open), the caller gets API_ERROR
RejectedNotAdvancing(r) ==
  /\ r.ret = "API_ERROR"
  /\ r.w.wtData = stream.wtData
  /\ r.w.wtFin = stream.wtFin
  /\ r.w.completes = stream.completes + 1
  /\ r.w.lastReset = "INTERNAL_ERROR"
  /\ ~r.w.writeHandle
  /\ r.w.wtResets = IF stream.writeHandle
                      THEN Append(stream.wtResets, "INTERNAL_ERROR")
                      ELSE stream.wtResets

\* C1: on a subgroup stream the ids of the objects written are strictly
\* increasing, and every object / objectNotExists / beginObject /
\* endOfGroup / endOfTrackAndGroup call whose id is not above the last
\* written id writes nothing, resets with INTERNAL_ERROR and returns
\* API_ERROR.
C1_SubgroupIdsStrictlyIncrease ==
  LET objs == WrittenObjects(stream)
  IN /\ \A i, j \in 1..Len(objs) : i < j => objs[i].id < objs[j].id
     /\ objs # <<>> =>
          \A id \in 0..objs[Len(objs)].id, ok \in BOOLEAN, fin \in BOOLEAN :
            /\ \A bytes \in Lengths :
                 RejectedNotAdvancing(object(stream, id, bytes, fin, ok))
            /\ RejectedNotAdvancing(objectNotExists(stream, id, fin, ok))
            /\ \A length \in Lengths, bytes \in Lengths :
                 RejectedNotAdvancing(beginObject(stream, id, length, bytes, ok))
            /\ RejectedNotAdvancing(endOfGroup(stream, id, ok))
            /\ RejectedNotAdvancing(endOfTrackAndGroup(stream, id, ok))

\* C1 witness: two objects were written and then a call was refused by the
\* id check (no object was in progress), which reset the open stream
C1_Witness ==
  /\ Len(WrittenObjects(stream)) >= 2
  /\ ret = "API_ERROR"
  /\ stream.lastReset = "INTERNAL_ERROR"
  /\ stream.currentLengthRemaining = kNone
  /\ stream.wtResets = <<"INTERNAL_ERROR">>
  /\ ~stream.wtFin

\* Whether group a comes no later than group b in the given group order
GroupNotAfter(order, a, b) ==
  IF order = "OldestFirst" THEN a <= b ELSE a >= b

\* C2: on a fetch stream the groups of the objects written follow the group
\* order agreed at FETCH_OK: ascending for OldestFirst, descending for
\* NewestFirst.
C2_FetchFollowsGroupOrder ==
  LET objs == WrittenObjects(stream)
  IN \A i, j \in 1..Len(objs) :
       i < j => GroupNotAfter(stream.groupOrder, objs[i].group, objs[j].group)

----------------------------------------------------------------------------
(* The publisher's role with the windows of the credit example *)
ExampleWindow == 10

CreditSetupParams ==
  {<<[key |-> "MAX_SUBSCRIBE_ID", asUint64 |-> w]>> : w \in Windows \cup {ExampleWindow}}

CreditNext ==
  \/ \E params \in CreditSetupParams : OnClientSetup(<<>>, params)
  \/ ControlWriteLoop
  \/ ControlMessages
  \/ \E id \in PeerIds : OnSubscribe(id)
  \/ \E id \in PeerIds : OnFetch(id)
  \/ \E id \in PeerIds : SubscribeOk(id)
  \/ \E id \in PeerIds : SubscribeError(id)
  \/ \E id \in PeerIds : SubscribeDone(id)
  \/ \E id \in PeerIds : FetchOk(id)
  \/ \E id \in PeerIds : FetchStreamComplete(id)

SpecCredit == SessionInit("SERVER") /\ [][CreditNext]_vars

----------------------------------------------------------------------------
(* Properties of the subscribe id window *)

\* The outcomes of an inbound SUBSCRIBE or FETCH with the given id
Inbound(s, id) ==
  onSubscribe(s, id) \cup onFetch(s, id, TRUE) \cup onFetch(s, id, FALSE)

\* C3: an inbound SUBSCRIBE or FETCH creates a publisher entry and is
\* enqueued for the application only if its id is below maxSubscribeID at
\* receipt; with an id at or above it the session is closed with
\* TOO_MANY_SUBSCRIBES (it stays closed if it was), no entry is created and
\* nothing is enqueued.
C3_InboundIdBelowMaxOrClosed ==
  \A id \in PeerIds : \A r \in Inbound(session, id) :
    /\ (\/ id \in DOMAIN r.pubTracks \ DOMAIN session.pubTracks
        \/ r.controlMessages # session.controlMessages)
         => id < session.maxSubscribeID
    /\ id >= session.maxSubscribeID =>
         /\ ~r.wt
         /\ session.wt => r.closeCodes = <<"TOO_MANY_SUBSCRIBES">>
         /\ DOMAIN r.pubTracks \subseteq DOMAIN session.pubTracks
         /\ r.controlMessages = session.controlMessages

\* C3 witness: after the setup the peer had a request accepted, and then a
\* request with an id outside the window closed the session
C3_Witness ==
  /\ session.setupComplete
  /\ session.maxSubscribeID > 0
  /\ session.controlMessages # <<>>
  /\ session.closeCodes = <<"TOO_MANY_SUBSCRIBES">>

\* C4: the MAX_SUBSCRIBE_ID values the session wrote, the one of its setup
\* message first, are strictly increasing.
C4_IssuedMaxIdsStrictlyIncrease ==
  \A i, j \in 1..Len(session.maxIdsWritten) :
    i < j => session.maxIdsWritten[i] < session.maxIdsWritten[j]

\* C4 witness: after the setup value two MAX_SUBSCRIBE_ID were issued
C4_Witness ==
  /\ Len(session.maxIdsWritten) >= 3
  /\ \E i \in 1..Len(session.controlWriteBuf) :
       session.controlWriteBuf[i] = Msg("MAX_SUBSCRIBE_ID", session.maxSubscribeID)

\* C5: every step of an open or closed session, other than the close itself,
\* that takes an entry out of the publisher map retires a subscribe id.
C5_EveryCompletionRetires ==
  [][(/\ session'.closeCodes = session.closeCodes
      /\ \E id \in DOMAIN session.pubTracks : id \notin DOMAIN session'.pubTracks)
       => Retired(session') > Retired(session)]_vars

----------------------------------------------------------------------------
(* Properties of the subscriber's role *)

\* The frames a step added to controlWriteBuf_
Written(old, new) ==
  IF Len(new) > Len(old) THEN SubSeq(new, Len(old) + 1, Len(new)) ELSE <<>>

\* C7: every SUBSCRIBE or FETCH the session writes carries an id below the
\* peerMaxSubscribeID it holds when it writes the request.
C7_RequestIdsBelowPeerMax ==
  [][LET frames == Written(session.controlWriteBuf, session'.controlWriteBuf)
     IN \A i \in 1..Len(frames) :
          frames[i].t \in {"SUBSCRIBE", "FETCH"} =>
            frames[i].v < session.peerMaxSubscribeID]_vars

\* C8: an inbound MAX_SUBSCRIBE_ID above peerMaxSubscribeID replaces it and
\* changes nothing else; any other closes the session with
\* PROTOCOL_VIOLATION (it stays closed if it was) and leaves
\* peerMaxSubscribeID as it is; after the peer's setup message
\* peerMaxSubscribeID never decreases.
C8_PeerMaxOnlyRises ==
  /\ [](\A v \in PeerMaxIds : \A r \in onMaxSubscribeId(session, v) :
          IF v > session.peerMaxSubscribeID
          THEN r = [session EXCEPT !.peerMaxSubscribeID = v]
          ELSE /\ ~r.wt
               /\ session.wt => r.closeCodes = <<"PROTOCOL_VIOLATION">>
               /\ r.peerMaxSubscribeID = session.peerMaxSubscribeID)
  /\ [][session.peerSetupSeen =>
          session'.peerMaxSubscribeID >= session.peerMaxSubscribeID]_vars

\* C8 witness: after the setup a MAX_SUBSCRIBE_ID raised peerMaxSubscribeID
\* above every setup parameter, and one that did not exceed it closed the
\* session
C8_Witness ==
  /\ session.setupComplete
  /\ session.peerMaxSubscribeID = MaxWindow
  /\ session.closeCodes = <<"PROTOCOL_VIOLATION">>

\* The futures of the requests that are not resolved
PendingRequests(s) ==
  {<<"request", id>> : id \in {i \in DOMAIN s.recv : s.recv[i].promise = "pending"}}
  \cup {<<"announce", i>> :
          i \in {j \in DOMAIN s.announceCalls :
                   s.announceCalls[j] \in {"pending", "unfulfilled"}}}
  \cup {<<"subscribeAnnounces", i>> :
          i \in {j \in DOMAIN s.subscribeAnnouncesCalls :
                   s.subscribeAnnouncesCalls[j] \in {"pending", "unfulfilled"}}}

\* C9: the step that closes the session leaves no request issued before it
\* with an unresolved future.
C9_CloseResolvesEveryRequest ==
  [][(session.wt /\ ~session'.wt) => PendingRequests(session') = {}]_vars

\* The UNSUBSCRIBE frames for the id in controlWriteBuf_
Unsubscribes(s, id) ==
  Len(SelectSeq(s.controlWriteBuf, LAMBDA f : f = Msg("UNSUBSCRIBE", id)))

\* What C10 says of a subscription after unsubscribe and SUBSCRIBE_DONE
CancelledOnce(s, f, id) ==
  /\ id \notin f.subTracks
  /\ id \notin f.subIdToTrackAlias
  /\ Unsubscribes(f, id) <= Unsubscribes(s, id) + 1
  /\ f.recv[id].doneCalls <= s.recv[id].doneCalls + 1

\* C10: for a subscription in both maps, unsubscribe followed by
\* SUBSCRIBE_DONE and SUBSCRIBE_DONE followed by unsubscribe both leave it in
\* neither map, write at most one UNSUBSCRIBE and invoke the consumer's
\* subscribeDone at most once.
C10_UnsubscribeAndDoneCommute ==
  \A id \in session.subTracks \cap session.subIdToTrackAlias :
    /\ \A f \in onSubscribeDone(unsubscribe(session, id), id) :
         CancelledOnce(session, f, id)
    /\ \A d \in onSubscribeDone(session, id) :
         CancelledOnce(session, unsubscribe(d, id), id)

\* C10 witness: an open session that accepted a subscription, wrote its
\* UNSUBSCRIBE and then took it out of both maps without calling the consumer
C10_Witness ==
  \E id \in DOMAIN session.recv :
    /\ session.wt
    /\ session.recv[id].promise = "ok"
    /\ session.recv[id].cancelled
    /\ session.recv[id].doneCalls = 0
    /\ Unsubscribes(session, id) = 1
    /\ id \notin session.subTracks
    /\ id \notin session.subIdToTrackAlias

----------------------------------------------------------------------------
(* The subscriber's data plane: ObjectStreamCallback, onDatagram *)

\* The ObjectStreamCallback of one unidirectional read loop.  subscribeState
\* is the set holding the alias of subscribeState_ (empty for null),
\* subgroupCallback is "subgroupCallback_ is not null", error is "error_ is
\* set", open is whether the read loop runs, stopSending whether the loop
\* called stopSending on the read handle.
ObjectStreamCallback ==
  [subscribeState |-> {}, subgroupCallback |-> FALSE, error |-> FALSE,
   open |-> TRUE, stopSending |-> FALSE]

ObjectStatuses ==
  {"NORMAL", "OBJECT_NOT_EXIST", "GROUP_NOT_EXIST", "END_OF_GROUP",
   "END_OF_TRACK_AND_GROUP", "END_OF_SUBGROUP"}

\* MoQSession::onNewUniStream
onNewUniStream(s) ==
  IF ~s.setupComplete THEN close(s, "PROTOCOL_VIOLATION")
  ELSE {[s EXCEPT !.streams = Append(@, ObjectStreamCallback)]}

\* The alias of subscribeState_
StateOf(s, n) == CHOOSE a \in s.streams[n].subscribeState : TRUE

isCancelled_IgnoresTrackCallback(s, n) ==
  IF s.streams[n].subscribeState # {}
  THEN ~s.streams[n].subgroupCallback
  ELSE TRUE

\* ObjectStreamCallback::isCancelled, for a stream without fetchState_
isCancelled(s, n) ==
  IF s.streams[n].subscribeState # {}
  THEN ~s.streams[n].subgroupCallback \/ ~s.recv[StateOf(s, n)].callback
  ELSE TRUE

\* A method of the track consumer or of the subgroup consumer is invoked and
\* returns a value (ok) or an error, which the callback keeps in error_
invokeCallback(s, n, ok) ==
  [s EXCEPT !.recv[StateOf(s, n)].calls = @ + 1,
            !.streams[n].error = @ \/ ~ok]

\* ObjectStreamCallback::onSubgroup
onSubgroup(s, n, alias, ok) ==
  IF alias \notin s.subTracks THEN [s EXCEPT !.streams[n].error = TRUE]
  ELSE LET t == [s EXCEPT !.streams[n].subscribeState = {alias}] IN
       IF ~t.recv[alias].callback THEN t
       ELSE [invokeCallback(t, n, ok) EXCEPT !.streams[n].subgroupCallback = ok]

\* ObjectStreamCallback::endOfSubgroup on a subgroup stream
endOfSubgroupCallback(s, n, deliverCallback) ==
  LET t == IF deliverCallback /\ ~isCancelled(s, n)
           THEN [s EXCEPT !.recv[StateOf(s, n)].calls = @ + 1] ELSE s
  IN [t EXCEPT !.streams[n].subgroupCallback = FALSE]

\* ObjectStreamCallback::onObjectBegin
onObjectBegin(s, n, objectComplete, streamComplete, ok) ==
  IF isCancelled(s, n) THEN s
  ELSE LET t == invokeCallback(s, n, ok) IN
       IF objectComplete /\ streamComplete
       THEN endOfSubgroupCallback(t, n, FALSE) ELSE t

\* ObjectStreamCallback::onObjectPayload
onObjectPayload(s, n, ok) ==
  IF isCancelled(s, n) THEN s ELSE invokeCallback(s, n, ok)

\* ObjectStreamCallback::onObjectStatus
onObjectStatus(s, n, status, ok) ==
  IF isCancelled(s, n) THEN s
  ELSE CASE status = "NORMAL" -> s
         [] status = "OBJECT_NOT_EXIST" -> invokeCallback(s, n, ok)
         [] status = "END_OF_SUBGROUP" -> endOfSubgroupCallback(s, n, TRUE)
         [] OTHER -> endOfSubgroupCallback(invokeCallback(s, n, ok), n, FALSE)

\* ObjectStreamCallback::onEndOfStream, and the read loop ends on the fin
onEndOfStream(s, n) ==
  [(IF isCancelled(s, n) THEN s ELSE endOfSubgroupCallback(s, n, TRUE))
     EXCEPT !.streams[n].open = FALSE]

\* ObjectStreamCallback::reset, called by the read loop on a read error; the
\* loop ends
streamReset(s, n) ==
  [(IF s.streams[n].subscribeState = {} THEN s
    ELSE endOfSubgroupCallback(
           IF isCancelled(s, n) THEN s ELSE invokeCallback(s, n, TRUE), n, FALSE))
     EXCEPT !.streams[n].open = FALSE]

\* MoQSession::unidirectionalReadLoop leaves its loop: its token was
\* cancelled (by close, or by the cancel of the receive state the stream
\* merged into it), or error_ is set after onIngress consumed a chunk
\* without the fin, and then the loop calls stopSending(0)
readLoopExits(s, n) ==
  [s EXCEPT !.streams[n].open = FALSE,
            !.streams[n].stopSending = s.streams[n].error]

\* What onDatagram finds in a datagram: a type other than OBJECT_DATAGRAM,
\* an object header parseObjectHeader refuses, a payload whose length is not
\* the header's, or none of these
Datagrams == {"badType", "badHeader", "badLength", "wellFormed"}

\* onDatagram without the comparison of the remaining length
onDatagram_IgnoresLength(s, alias, datagram) ==
  IF datagram = "badType" THEN close(s, "PROTOCOL_VIOLATION")
  ELSE IF datagram = "badHeader" THEN close(s, "PROTOCOL_VIOLATION")
  ELSE IF alias \in s.subTracks /\ s.recv[alias].callback
  THEN {[s EXCEPT !.recv[alias].calls = @ + 1]}
  ELSE {s}

\* MoQSession::onDatagram
onDatagram(s, alias, datagram) ==
  IF datagram = "badType" THEN close(s, "PROTOCOL_VIOLATION")
  ELSE IF datagram = "badHeader" THEN close(s, "PROTOCOL_VIOLATION")
  ELSE IF datagram = "badLength" THEN close(s, "PROTOCOL_VIOLATION")
  ELSE IF alias \in s.subTracks /\ s.recv[alias].callback
  THEN {[s EXCEPT !.recv[alias].calls = @ + 1]}
  ELSE {s}

Readers == {n \in DOMAIN session.streams : session.streams[n].open}

OnNewUniStream == Becomes(onNewUniStream(session))

OnSubgroup(alias) ==
  \E n \in Readers : \E ok \in BOOLEAN :
    /\ session.streams[n].subscribeState = {}
    /\ ~session.streams[n].error
    /\ Becomes({onSubgroup(session, n, alias, ok)})

OnObjectBegin ==
  \E n \in Readers : \E objectComplete, streamComplete, ok \in BOOLEAN :
    Becomes({onObjectBegin(session, n, objectComplete, streamComplete, ok)})

OnObjectPayload ==
  \E n \in Readers : \E ok \in BOOLEAN :
    Becomes({onObjectPayload(session, n, ok)})

OnObjectStatus ==
  \E n \in Readers : \E status \in ObjectStatuses : \E ok \in BOOLEAN :
    Becomes({onObjectStatus(session, n, status, ok)})

OnEndOfStream == \E n \in Readers : Becomes({onEndOfStream(session, n)})

\* The loop reads again only after a chunk that left no error
StreamReset ==
  \E n \in Readers :
    /\ ~session.streams[n].error
    /\ Becomes({streamReset(session, n)})

ReadLoopExits ==
  \E n \in Readers :
    /\ \/ session.cancelled
       \/ session.streams[n].error
       \/ \E a \in session.streams[n].subscribeState : session.recv[a].cancelled
    /\ Becomes({readLoopExits(session, n)})

OnDatagram(alias) ==
  \E datagram \in Datagrams : Becomes(onDatagram(session, alias, datagram))

SubscriberDataNext ==
  \/ Setup(<<>>)
  \/ SetupResumes
  \/ OnServerSetup(<<>>)
  \/ ControlWriteLoop
  \/ Drain
  \/ session.nextSubscribeID < MaxDataRequests /\ Subscribe
  \/ \E id \in LocalIds : Unsubscribe(id)
  \/ \E id \in LocalIds : OnSubscribeOk(id)
  \/ \E id \in LocalIds : OnSubscribeDone(id)
  \/ OnNewUniStream
  \/ \E alias \in LocalIds : OnSubgroup(alias)
  \/ OnObjectBegin
  \/ OnObjectPayload
  \/ OnObjectStatus
  \/ OnEndOfStream
  \/ StreamReset
  \/ ReadLoopExits
  \/ \E alias \in LocalIds : OnDatagram(alias)

SpecSubscriberData == SessionInit("CLIENT") /\ [][SubscriberDataNext]_vars

\* The subscriptions the application unsubscribed
Unsubscribed(s) ==
  {id \in DOMAIN s.recv : s.recv[id].kind = "subscribe" /\ s.recv[id].cancelled}

\* The consumers of the subscription were not invoked and the session was
\* not closed, unless it was draining and its last receive state went
Dropped(s, r, id) ==
  /\ r.recv[id].calls = s.recv[id].calls
  /\ r.recv[id].doneCalls = s.recv[id].doneCalls
  /\ \/ r.wt = s.wt /\ r.closeCodes = s.closeCodes
     \/ s.draining /\ r.closeCodes = Append(s.closeCodes, "NO_ERROR")

----------------------------------------------------------------------------
(* Draining *)

DrainNext ==
  \/ Setup(<<>>)
  \/ SetupResumes
  \/ OnServerSetup(<<>>)
  \/ ControlWriteLoop
  \/ Drain
  \/ Subscribe
  \/ Fetch
  \/ \E id \in LocalIds : Unsubscribe(id)
  \/ \E id \in LocalIds : OnSubscribeOk(id)
  \/ \E id \in LocalIds : OnSubscribeError(id)
  \/ \E id \in LocalIds : OnSubscribeDone(id)
  \/ \E id \in LocalIds : FetchCancel(id)
  \/ \E id \in LocalIds : OnFetchHeader(id)
  \/ \E id \in LocalIds : FetchStreamEnds(id)
  \/ \E id \in LocalIds : OnFetchOk(id)
  \/ \E id \in LocalIds : OnFetchError(id)

SpecDrain == SessionInit("CLIENT") /\ [][DrainNext]_vars

\* Both receive maps are empty
Drained(s) == s.fetches = {} /\ s.subTracks = {}

\* The handler closed the session, with NO_ERROR
ClosedByDrain(s, r) ==
  s.wt /\ ~r.wt /\ r.closeCodes = Append(s.closeCodes, "NO_ERROR")

\* C12: a draining session with both receive maps empty is closed; drain()
\* and checkForCloseOnDrain close an open session, with NO_ERROR, exactly
\* when both maps are empty (and drain was called), and leave the maps alone
\* otherwise; a session that drain closed was closed with NO_ERROR.
C12_DrainClosesWhenBothMapsEmpty ==
  /\ (session.draining /\ Drained(session)) => ~session.wt
  /\ \A r \in drain(session) :
       /\ r.draining
       /\ session.wt => (ClosedByDrain(session, r) <=> Drained(session))
       /\ ~Drained(session) =>
            r = [session EXCEPT !.draining = TRUE]
  /\ \A r \in checkForCloseOnDrain(session) :
       /\ session.wt =>
            (ClosedByDrain(session, r) <=> (session.draining /\ Drained(session)))
       /\ ~(session.draining /\ Drained(session)) => r = session

\* C12 witness: drain() was called with a subscription and a fetch
\* outstanding, and the session closed with NO_ERROR when the last of them
\* went
C12_Witness ==
  /\ session.draining
  /\ session.nextSubscribeID = 2
  /\ \E i, j \in DOMAIN session.recv :
       /\ session.recv[i].kind = "subscribe" /\ session.recv[i].promise = "error"
       /\ session.recv[j].kind = "fetch" /\ session.recv[j].promise = "ok"
  /\ session.closeCodes = <<"NO_ERROR">>

----------------------------------------------------------------------------
(* Closing *)

\* The codes the application or the session closes with
SessionCloseErrorCodes ==
  {"NO_ERROR", "INTERNAL_ERROR", "PROTOCOL_VIOLATION", "TOO_MANY_SUBSCRIBES"}

CloseNext ==
  \/ \E params \in OwnSetupParams : Setup(params)
  \/ SetupResumes
  \/ OnServerSetup(<<>>)
  \/ ControlWriteLoop
  \/ ControlMessages
  \/ \E id \in PeerIds : OnSubscribe(id)
  \/ \E id \in PeerIds : OnFetch(id)
  \/ \E id \in PeerIds : FetchOk(id)
  \/ Subscribe
  \/ Fetch
  \/ \E ns \in Namespaces : Announce(ns)
  \/ \E ns \in Namespaces : SubscribeAnnounces(ns)
  \/ \E error \in SessionCloseErrorCodes : Close(error)

SpecClose == SessionInit("CLIENT") /\ [][CloseNext]_vars

\* C13: close(code) on an open session detaches the transport, leaves the
\* publisher map, both receive maps and both pending maps empty, closes the
\* transport with the code, once, and requests cancellation; close on a
\* closed session, with any code, changes nothing; over a run the transport
\* is closed at most once.
C13_CloseEmptiesAndClosesOnce ==
  /\ Len(session.closeCodes) <= 1
  /\ (session.closeCodes = <<>>) = session.wt
  /\ \A error \in SessionCloseErrorCodes :
       IF session.wt
       THEN \A r \in close(session, error) :
              /\ ~r.wt
              /\ r.pubTracks = <<>>
              /\ r.subTracks = {} /\ r.fetches = {}
              /\ r.pendingAnnounce = <<>> /\ r.pendingSubscribeAnnounces = <<>>
              /\ r.closeCodes = <<error>>
              /\ r.cancelled
              /\ \A second \in SessionCloseErrorCodes : close(r, second) = {r}
       ELSE close(session, error) = {session}

\* C13 witness: a session with a fetch publisher whose stream was open (its
\* reset retired the id), a subscription, a fetch and two pending namespace
\* requests was closed
C13_Witness ==
  /\ ~session.wt
  /\ session.cancelled
  /\ session.closeCodes = <<"INTERNAL_ERROR">>
  /\ Len(session.maxIdsWritten) = 2
  /\ \E i, j \in DOMAIN session.recv :
       /\ session.recv[i].kind = "subscribe" /\ session.recv[i].promise = "closed"
       /\ session.recv[j].kind = "fetch" /\ session.recv[j].promise = "closed"
  /\ \E i \in DOMAIN session.announceCalls : session.announceCalls[i] = "closed"
  /\ \E i \in DOMAIN session.subscribeAnnouncesCalls :
       session.subscribeAnnouncesCalls[i] = "closed"

----------------------------------------------------------------------------
(* TrackPublisherImpl and its subgroup streams *)

\* The keys of subgroups_
SubgroupKeys == Groups \X {0}

\* TrackPublisherImpl::beginSubgroup on the handle subscribeOk returned;
\* streamOk is whether the transport granted a unidirectional stream.  The
\* writer is the new last element of subgroupWriters; state is "open" while
\* it holds its write handle.
beginSubgroup(s, id, key, streamOk) ==
  IF ~s.wt \/ ~streamOk THEN s
  ELSE LET w == Len(s.subgroupWriters) + 1 IN
       [s EXCEPT
          !.subgroupWriters = Append(@, [pub |-> id, key |-> key, state |-> "open"]),
          !.pubTracks[id].subgroups =
             [k \in DOMAIN @ \cup {key} |-> IF k = key THEN w ELSE @[k]]]

\* StreamPublisherImpl::onStreamComplete of a subgroup writer that finished
\* (fin or reset) with TrackPublisherImpl::onStreamComplete: the key of the
\* writer's header leaves subgroups_
subgroupStreamComplete(s, w, how) ==
  LET id == s.subgroupWriters[w].pub IN
  [s EXCEPT !.subgroupWriters[w].state = how,
            !.pubTracks[id].subgroups = Erase(@, s.subgroupWriters[w].key)]

OpenWriters(s) ==
  {w \in DOMAIN s.subgroupWriters : s.subgroupWriters[w].state = "open"}

BeginSubgroup(id) ==
  /\ id \in DOMAIN session.pubTracks
  /\ session.pubTracks[id].kind = "track"
  /\ session.pubTracks[id].ok
  /\ \E key \in SubgroupKeys : \E streamOk \in BOOLEAN :
       Becomes({beginSubgroup(session, id, key, streamOk)})

SubgroupStreamComplete ==
  \E w \in OpenWriters(session) : \E how \in {"fin", "reset"} :
    /\ session.subgroupWriters[w].pub \in DOMAIN session.pubTracks
    /\ Becomes({subgroupStreamComplete(session, w, how)})

TrackPublisherNext ==
  \/ \E params \in PeerSetupParams : OnClientSetup(<<>>, params)
  \/ ControlWriteLoop
  \/ ControlMessages
  \/ \E id \in PeerIds : OnSubscribe(id)
  \/ \E id \in PeerIds : SubscribeOk(id)
  \/ \E id \in PeerIds : BeginSubgroup(id)
  \/ SubgroupStreamComplete
  \/ \E error \in {"NO_ERROR", "INTERNAL_ERROR"} : Close(error)

SpecTrackPublisher == SessionInit("SERVER") /\ [][TrackPublisherNext]_vars

\* C14: reset(code) on a track publisher leaves no writer of its subgroup
\* map open; after the session closed no subgroup writer of a track
\* publisher is open.
C14_CloseResetsOpenSubgroups ==
  /\ \A id \in DOMAIN session.pubTracks :
       session.pubTracks[id].kind = "track" =>
         LET r == trackPublisherReset(session, id, "SESSION_CLOSED") IN
         \A key \in DOMAIN session.pubTracks[id].subgroups :
           session.pubTracks[id].subgroups[key] \notin OpenWriters(r)
  /\ ~session.wt => OpenWriters(session) = {}

----------------------------------------------------------------------------
(* Properties of a stream writer that completed *)

\* C15: a call on a writer that released its write handle (fin written or
\* reset) returns API_ERROR or CANCELLED (reset returns nothing), hands
\* nothing to the transport and does not use the released handle.
C15_CompletedWriterRejectsCalls ==
  [][~stream.writeHandle =>
       /\ ret' \in {"API_ERROR", "CANCELLED", "void"}
       /\ ~stream'.crashed
       /\ stream'.wtData = stream.wtData
       /\ stream'.wtResets = stream.wtResets
       /\ stream'.wtFin = stream.wtFin]_vars

\* C16: a call that returns API_ERROR leaves the stream without its write
\* handle, and if it had the handle the call reset it with INTERNAL_ERROR.
C16_ApiErrorResetsStream ==
  [][ret' = "API_ERROR" =>
       /\ ~stream'.writeHandle
       /\ stream.writeHandle =>
            stream'.wtResets = Append(stream.wtResets, "INTERNAL_ERROR")]_vars

\* The call reset the open stream with INTERNAL_ERROR and wrote nothing
RejectedAndReset(r) ==
  /\ r.ret = "API_ERROR"
  /\ ~r.w.writeHandle
  /\ r.w.wtResets = Append(stream.wtResets, "INTERNAL_ERROR")
  /\ r.w.wtData = stream.wtData

\* The call handed its frame to the transport and left the stream open or
\* finished it
Wrote(r, left) ==
  /\ r.w.currentLengthRemaining = left
  /\ Len(r.w.wtData) > Len(stream.wtData)
  /\ r.w.wtResets = stream.wtResets

\* C17: on a live writer the remaining length is absent or positive.  With
\* R bytes remaining and the transport accepting the write, objectPayload
\* with fewer than R bytes and no fin returns IN_PROGRESS and leaves the
\* difference, with R bytes returns DONE and leaves no object in progress,
\* and with more than R bytes, or with fin and fewer, returns API_ERROR and
\* resets the stream with INTERNAL_ERROR.  With no object in progress
\* beginObject(id, N, p0) for a new id leaves N - len(p0) remaining, none if
\* that is 0, and is rejected the same way if len(p0) exceeds N.
C17_PayloadAccounting ==
  stream.writeHandle =>
    LET R == stream.currentLengthRemaining IN
    IF R # kNone
    THEN /\ R > 0
         /\ \A bytes \in Lengths, fin \in BOOLEAN :
              LET r == objectPayload(stream, bytes, fin, TRUE) IN
              IF bytes > R \/ (bytes < R /\ fin) THEN RejectedAndReset(r)
              ELSE IF bytes = R
              THEN r.ret = "DONE" /\ Wrote(r, kNone) /\ r.w.wtFin = fin
              ELSE r.ret = "IN_PROGRESS" /\ Wrote(r, R - bytes) /\ r.w.writeHandle
    ELSE \A id \in ObjectIds, N \in Lengths, bytes \in Lengths :
           (stream.header.id = kNoObjectId \/ id > stream.header.id) =>
             LET r == beginObject(stream, id, N, bytes, TRUE) IN
             IF bytes > N THEN RejectedAndReset(r)
             ELSE /\ r.ret = "OK"
                  /\ Wrote(r, IF bytes = N THEN kNone ELSE N - bytes)
                  /\ r.w.writeHandle

\* C17 witness: an object begun with a part of its payload was completed by
\* a later objectPayload, which returned DONE, on a stream that is still open
C17_Witness ==
  /\ ret = "DONE"
  /\ stream.writeHandle
  /\ stream.currentLengthRemaining = kNone
  /\ \E i \in DOMAIN stream.wtData : stream.wtData[i].kind = "PAYLOAD"

\* C18: the peer's stop-sending on an open writer resets the stream with
\* CANCELLED, once, and every later call returns CANCELLED (reset returns
\* nothing) and resets nothing.
C18_StopSendingCancelsWriter ==
  /\ [][(stream.stopSending = "none" /\ stream'.stopSending = "reset") =>
          stream'.wtResets = Append(stream.wtResets, "CANCELLED")]_vars
  /\ [][stream.stopSending = "reset" =>
          /\ ret' \in {"CANCELLED", "void"}
          /\ stream'.wtResets = stream.wtResets]_vars

----------------------------------------------------------------------------
(* The stream priority.  SpecPriority draws the arguments of one call of   *)
(* getStreamPriority, as beginSubgroup and beginFetch make it when they    *)
(* set the priority of a new stream, and applies the function.             *)

\* Group ids around the widths the encoder uses: 2^11 is the first group
\* whose bits leave a 32-bit word when shifted by 21, 2^21 the first that
\* does not fit the group field
PriorityGroupIds == {0, 1, 7, 2047, 2048, 2097151, 2097153}

PrioritySubgroupIds == {0, 1, 2097151, 2097152}

Priorities == {0, 1, 128, 255}

PriorityInit ==
  /\ stream = FetchWriter("OldestFirst")
  /\ ret = "none"
  /\ session = MoQSession("SERVER")
  /\ \E g \in PriorityGroupIds, sg \in PrioritySubgroupIds,
        sub \in Priorities, pub \in Priorities, order \in GroupOrders :
       priority = [NoPriority EXCEPT !.groupID = g, !.subgroupID = sg,
                                     !.subPri = sub, !.pubPri = pub,
                                     !.pubGroupOrder = order]

GetStreamPriority ==
  /\ ~priority.called
  /\ priority' = [priority EXCEPT
                    !.called = TRUE,
                    !.value = getStreamPriority(priority.groupID,
                                priority.subgroupID, priority.subPri,
                                priority.pubPri, priority.pubGroupOrder)]
  /\ UNCHANGED <<stream, ret, session>>

PriorityNext == GetStreamPriority

SpecPriority == PriorityInit /\ [][PriorityNext]_vars

\* The value the layout prescribes, every field shifted in 64 bits
LayoutValue(groupID, subgroupID, subPri, pubPri, order) ==
  LET low == groupID % 2097152
      G == IF order = "OldestFirst" THEN low ELSE 2097151 - low
      S == subgroupID % 2097152
  IN ShiftLeft(Bits(subPri), 50, 64) \cup ShiftLeft(Bits(pubPri), 42, 64)
       \cup ShiftLeft(Bits(G), 21, 64) \cup Bits(S)

\* C19: for every subPri and pubPri in 0..255, both group orders and every
\* groupID and subgroupID, getStreamPriority returns
\* (subPri << 50) | (pubPri << 42) | (G << 21) | S computed in 64 bits, with
\* S the low 21 bits of subgroupID and G the low 21 bits of groupID
\* (OldestFirst) or 2^21 - 1 minus them (NewestFirst); no group bit is lost
\* and the top 6 bits are zero.
C19_PriorityLayout ==
  priority.called =>
    /\ priority.value = LayoutValue(priority.groupID, priority.subgroupID,
                                    priority.subPri, priority.pubPri,
                                    priority.pubGroupOrder)
    /\ priority.value \cap (58..63) = {}

\* The first of two groups in a group order
EarlierGroup(order, g, h) == IF order = "OldestFirst" THEN g < h ELSE g > h

\* The stream of the first arguments precedes the stream of the second
Precedes(a, b) ==
  IF a.subPri # b.subPri THEN a.subPri < b.subPri
  ELSE IF a.pubPri # b.pubPri THEN a.pubPri < b.pubPri
  ELSE IF a.groupID # b.groupID
       THEN EarlierGroup(a.pubGroupOrder, a.groupID, b.groupID)
  ELSE a.subgroupID < b.subgroupID

\* C20: of two streams with group and subgroup ids below 2^21, the encoded
\* priority is lower for the one with the lower subPri; with equal subPri
\* for the lower pubPri; with both equal for the earlier group in the group
\* order (smaller groupID for OldestFirst, larger for NewestFirst); with all
\* equal for the smaller subgroupID.
C20_PriorityPrecedence ==
  (priority.called /\ priority.groupID < 2097152
     /\ priority.subgroupID < 2097152) =>
    \A g \in {x \in PriorityGroupIds : x < 2097152},
       sg \in {x \in PrioritySubgroupIds : x < 2097152},
       sub \in Priorities, pub \in Priorities :
      LET other == [priority EXCEPT !.groupID = g, !.subgroupID = sg,
                                    !.subPri = sub, !.pubPri = pub]
          value == getStreamPriority(g, sg, sub, pub, priority.pubGroupOrder)
      IN Precedes(priority, other) => Below(priority.value, value)

----------------------------------------------------------------------------
(* Properties of the publisher's inbound requests *)

\* C21: an inbound SUBSCRIBE or FETCH whose subscribeID is a key of the
\* publisher map closes the session (PROTOCOL_VIOLATION or
\* TOO_MANY_SUBSCRIBES) and is not enqueued for the application.
C21_DuplicateIdClosesSession ==
  \A id \in DOMAIN session.pubTracks :
    \A r \in onSubscribe(session, id) \cup onFetch(session, id, TRUE) :
      /\ ~r.wt
      /\ session.wt =>
           \/ r.closeCodes = <<"PROTOCOL_VIOLATION">>
           \/ r.closeCodes = <<"TOO_MANY_SUBSCRIBES">>
      /\ r.controlMessages = session.controlMessages


\* A session that issues fetches and receives the peer's
FetchRangeNext ==
  \/ \E params \in OwnSetupParams : Setup(params)
  \/ SetupResumes
  \/ OnServerSetup(<<>>)
  \/ ControlWriteLoop
  \/ ControlMessages
  \/ Fetch
  \/ \E id \in LocalIds : OnFetchOk(id)
  \/ \E id \in LocalIds : OnFetchError(id)
  \/ \E id \in PeerIds : OnFetch(id)

SpecFetchRange == SessionInit("CLIENT") /\ [][FetchRangeNext]_vars

\* C22: an inbound FETCH with a valid subscribeID whose end is before its
\* start is answered with FETCH_ERROR(INVALID_RANGE), creates no publisher
\* entry and is not enqueued for the application; on the requesting side the
\* FETCH_ERROR resolves the pending fetch future with an error and removes
\* the fetch receive state.
C22_InvalidRangeAnswered ==
  /\ \A id \in PeerIds : id < session.maxSubscribeID =>
       \A r \in onFetch(session, id, FALSE) :
         /\ r.controlWriteBuf =
              Append(session.controlWriteBuf,
                     [t |-> "FETCH_ERROR", v |-> id, errorCode |-> "INVALID_RANGE"])
         /\ DOMAIN r.pubTracks \subseteq DOMAIN session.pubTracks
         /\ r.controlMessages = session.controlMessages
  /\ \A id \in session.fetches : session.recv[id].promise = "pending" =>
       \A r \in onFetchError(session, id) :
         /\ r.recv[id].promise = "error"
         /\ id \notin r.fetches

\* C22 witness: an open session answered a FETCH with FETCH_ERROR
\* (INVALID_RANGE) and holds no publisher entry and no message for the
\* application, and a FETCH_ERROR resolved one of its own fetches
C22_Witness ==
  /\ session.wt
  /\ session.controlWriteBuf =
       <<[t |-> "FETCH_ERROR", v |-> 0, errorCode |-> "INVALID_RANGE"]>>
  /\ session.pubTracks = <<>>
  /\ session.controlMessages = <<>>
  /\ \E id \in DOMAIN session.recv :
       session.recv[id].promise = "error" /\ id \notin session.fetches


\* A session in both roles: it subscribes and fetches, and the peer does
BothRolesNext ==
  \/ FetchRangeNext
  \/ Subscribe
  \/ \E id \in LocalIds : OnSubscribeError(id)
  \/ \E id \in PeerIds : OnSubscribe(id)

SpecBothRoles == SessionInit("CLIENT") /\ [][BothRolesNext]_vars

\* C23: a subscribe id is a key of at most one of the publisher map and the
\* receiver maps (subscribe index, fetch map), and on the receiver side an id
\* is never a subscribe and a fetch at once.
C23_IdInOneMapOnly ==
  /\ DOMAIN session.pubTracks \cap (session.subIdToTrackAlias \cup session.fetches) = {}
  /\ session.subIdToTrackAlias \cap session.fetches = {}

----------------------------------------------------------------------------
(* The setup handshake, on a client and on a server *)

SetupNext ==
  \/ \E params \in SetupParams : Setup(params)
  \/ SetupResumes
  \/ \E params \in SetupParams : OnServerSetup(params)
  \/ \E peerParams \in SetupParams, params \in SetupParams :
       OnClientSetup(peerParams, params)
  \/ ControlWriteLoop
  \/ Close("NO_ERROR")

SpecSetup ==
  (SessionInit("CLIENT") \/ SessionInit("SERVER")) /\ [][SetupNext]_vars

\* The MAX_SUBSCRIBE_ID parameter of a setup message, 0 if it has none
MaxSubscribeIdParam(params) ==
  IF \E i \in DOMAIN params : params[i].key = "MAX_SUBSCRIBE_ID"
  THEN LET i == CHOOSE j \in DOMAIN params : params[j].key = "MAX_SUBSCRIBE_ID"
       IN params[i].asUint64
  ELSE 0

\* What C24 says of the session a setup message of the peer leaves
PeerSetupHandled(s, r, versionOk, params) ==
  IF versionOk
  THEN r.peerMaxSubscribeID = MaxSubscribeIdParam(params)
  ELSE /\ ~r.wt
       /\ s.wt => r.closeCodes = <<"PROTOCOL_VIOLATION">>
       /\ ~r.setupComplete

\* C24: setupComplete becomes true on a side only after that side has seen
\* the peer's setup message with the current version, and the handler of
\* that message leaves peerMaxSubscribeID at the message's MAX_SUBSCRIBE_ID
\* parameter (0 if absent); a version mismatch closes the session with
\* PROTOCOL_VIOLATION and leaves setupComplete false.
C24_SetupHandshake ==
  /\ [](~session.peerSetupSeen =>
          \A versionOk \in BOOLEAN, params \in SetupParams :
            /\ session.dir = "CLIENT" =>
                 \A r \in onServerSetup(session, versionOk, params) :
                   PeerSetupHandled(session, r, versionOk, params)
            /\ session.dir = "SERVER" =>
                 \A callbackOk \in BOOLEAN, own \in SetupParams :
                   \A r \in onClientSetup(session, versionOk, params, callbackOk, own) :
                     PeerSetupHandled(session, r, versionOk, params))
  /\ [](session.setupComplete =>
          session.peerSetupSeen /\ session.setupPromise = "value")
  /\ [][session.setupPromise = "exception" =>
          session'.setupPromise = "exception" /\ ~session'.setupComplete]_vars

\* C24 witness: a client that announced no window completed its setup on a
\* SERVER_SETUP carrying MAX_SUBSCRIBE_ID = MaxWindow
C24_Witness ==
  /\ session.dir = "CLIENT"
  /\ session.setupComplete
  /\ session.maxConcurrentSubscribes = 0
  /\ session.peerMaxSubscribeID = MaxWindow
  /\ session.wt

----------------------------------------------------------------------------
(* Properties of the receive states *)

\* FETCH_OK was received for the fetch and its consumer was released
OkAndReleased(st) == st.promise = "ok" /\ ~st.callback

\* C25: a fetch leaves the fetch map exactly when FETCH_OK has been received
\* and the consumer has been released (stream end or reset, or fetchCancel),
\* at the later of the two: no entry of the map is fulfilled and released,
\* and a step takes an entry out only if both have happened, or it is the
\* handling of a FETCH_ERROR or the close of the session.
C25_FetchEntryLeavesAfterBoth ==
  /\ [](\A id \in session.fetches : ~fetchOkAndAllDataReceived(session.recv[id]))
  /\ [][\A id \in session.fetches \ session'.fetches :
          \/ OkAndReleased(session'.recv[id])
          \/ session' \in onFetchError(session, id)
          \/ session.wt /\ ~session'.wt]_vars

\* C25 witness: in an open session one fetch left the map after its FETCH_OK
\* and the release of its consumer, and another, with only its FETCH_OK, is
\* still in the map
C25_Witness ==
  /\ session.wt
  /\ \E id \in DOMAIN session.recv \ session.fetches :
       OkAndReleased(session.recv[id])
  /\ \E id \in session.fetches :
       session.recv[id].promise = "ok" /\ session.recv[id].callback


\* C26: the future of a request is fulfilled at most once: a second terminal
\* signal for the request (a repeated SUBSCRIBE_OK or FETCH_OK, or the close
\* of the session after SUBSCRIBE_OK) never sets the promise again, and the
\* close of the session reaches a subscription whose future is fulfilled as
\* subscribeDone on its consumer.
C26_PromiseSetOnce ==
  /\ [](\A id \in DOMAIN session.recv : ~session.recv[id].overset)
  /\ [][\A id \in DOMAIN session.recv :
          /\ session.recv[id].promise # "pending" =>
               session'.recv[id].promise = session.recv[id].promise
          /\ (/\ session.wt /\ ~session'.wt
              /\ id \in session.subTracks
              /\ session.recv[id].promise = "ok"
              /\ session.recv[id].callback) =>
               session'.recv[id].doneCalls = session.recv[id].doneCalls + 1]_vars

----------------------------------------------------------------------------
(* Properties of the stream reader *)

\* C27: once a consumer invoked by the reader of a stream returned an error,
\* the reader delivers no further object of the stream to the consumer, it
\* ends with stopSending(0) on the stream (unless the stream's fin ended it),
\* and the session stays open.
C27_ConsumerErrorStopsReader ==
  /\ [](\A n \in Readers : \A id \in session.streams[n].subscribeState :
          session.streams[n].error =>
            \A oc, sc, ok \in BOOLEAN :
              /\ onObjectBegin(session, n, oc, sc, ok).recv[id].calls =
                   session.recv[id].calls
              /\ onObjectPayload(session, n, ok).recv[id].calls =
                   session.recv[id].calls)
  /\ [][\A n \in Readers :
          (/\ session.streams[n].error
           /\ session.streams[n].subscribeState # {}
           /\ ~session'.streams[n].open
           /\ session' # onEndOfStream(session, n)) =>
            /\ session'.streams[n].stopSending
            /\ session'.closeCodes = session.closeCodes]_vars


----------------------------------------------------------------------------
(* Failures of the codecs *)

\* MoQSession::onConnectionError: the control codec reports a parse error
onConnectionError(s) == close(s, "PROTOCOL_VIOLATION")

\* ObjectStreamCallback::onConnectionError: the codec of an object stream
\* reports a protocol violation
onStreamConnectionError(s, n) == close(s, "PROTOCOL_VIOLATION")

\* MoQSession::unidirectionalReadLoop catches what codec.onIngress throws: it
\* holds the exception as a CANCELLED error, calls stopSending(0) unless the
\* chunk carried the fin, and leaves its loop
objectCodecThrows(s, n, fin) ==
  [s EXCEPT !.streams[n].open = FALSE, !.streams[n].stopSending = ~fin]

\* MoQSession::controlReadLoop catches what codec.onIngress throws and logs
\* it with XLOG(FATAL), which aborts the process
controlCodecThrows(s) == [s EXCEPT !.fatal = TRUE]

OnConnectionError == Becomes(onConnectionError(session))

OnStreamConnectionError ==
  \E n \in Readers : Becomes(onStreamConnectionError(session, n))

ObjectCodecThrows ==
  \E n \in Readers : \E fin \in BOOLEAN :
    Becomes({objectCodecThrows(session, n, fin)})

ControlCodecThrows ==
  /\ ~session.cancelled
  /\ Becomes({controlCodecThrows(session)})

\* A subscriber whose codecs fail
CodecNext ==
  \/ Setup(<<>>)
  \/ SetupResumes
  \/ OnServerSetup(<<>>)
  \/ ControlWriteLoop
  \/ session.nextSubscribeID < MaxDataRequests /\ Subscribe
  \/ \E id \in LocalIds : OnSubscribeOk(id)
  \/ OnNewUniStream
  \/ \E alias \in LocalIds : OnSubgroup(alias)
  \/ OnObjectBegin
  \/ OnEndOfStream
  \/ ReadLoopExits
  \/ OnConnectionError
  \/ OnStreamConnectionError
  \/ ObjectCodecThrows
  \/ ControlCodecThrows

SpecCodec == SessionInit("CLIENT") /\ [][CodecNext]_vars

\* The sessions left by a failure of a codec: a protocol violation or an
\* exception of the codec of object stream n, a parse error or an exception
\* of the control codec
CodecFailures(s) ==
  onConnectionError(s) \cup {controlCodecThrows(s)}
  \cup UNION {onStreamConnectionError(s, n) \cup
                {objectCodecThrows(s, n, fin) : fin \in BOOLEAN} :
              n \in {i \in DOMAIN s.streams : s.streams[i].open}}

\* C28: when the codec of an object stream throws or reports a protocol
\* violation, or the control codec throws or reports a parse error, the
\* session is closed with PROTOCOL_VIOLATION.
C28_CodecFailureClosesSession ==
  [][(session.wt /\ session' \in CodecFailures(session)) =>
       /\ ~session'.wt
       /\ session'.closeCodes = <<"PROTOCOL_VIOLATION">>]_vars


----------------------------------------------------------------------------
(* The control write loop, step by step *)

MaxWrittenFrames == 3  \* frames the handlers write in one run

\* sendMaxSubscribeID(signalWriteLoop = false): the frame goes to
\* controlWriteBuf_ and controlWriteEvent_ is left alone
sendMaxSubscribeIDNoSignal(s) ==
  [s EXCEPT !.controlWriteBuf = Append(@, Msg("MAX_SUBSCRIBE_ID", s.maxSubscribeID)),
            !.maxIdsWritten = Append(@, s.maxSubscribeID)]

\* retireSubscribeId(signalWriteLoop = false)
retireSubscribeIdNoSignal(s) ==
  LET closed == s.closedSubscribes + 1 IN
  IF closed >= s.maxConcurrentSubscribes \div 2
  THEN sendMaxSubscribeIDNoSignal([s EXCEPT !.maxSubscribeID = @ + closed,
                                           !.closedSubscribes = 0])
  ELSE [s EXCEPT !.closedSubscribes = closed]

\* MoQSession::subscribeError with the result of writeSubscribeError: the
\* application chooses the error code and the reason, and a code that does
\* not fit a varint makes the writer fail.  The handler has then erased the
\* track and retired the id, and returns before controlWriteEvent_.signal()
subscribeErrorRes(s, id, res) ==
  IF res THEN subscribeError(s, id)
  ELSE IF id \notin DOMAIN s.pubTracks THEN s
  ELSE retireSubscribeIdNoSignal([s EXCEPT !.pubTracks = Erase(@, id)])

\* The loop left for good: co_return or break
writeLoopExits(s) == [s EXCEPT !.writeLoop = "exited"]

\* writeStreamData(controlWriteBuf_.move()) and awaitWritable(): the buffer is
\* moved out whether the write succeeds or not
writeStreamData(s, writeOk, awaitOk) ==
  IF ~writeOk
  THEN writeLoopExits([s EXCEPT !.controlWriteBuf = <<>>])
  ELSE LET w == [s EXCEPT !.written = @ \o s.controlWriteBuf,
                          !.controlWriteBuf = <<>>]
       IN IF awaitOk THEN [w EXCEPT !.writeLoop = "awaitWritable"]
          ELSE writeLoopExits(w)

\* controlWriteLoop from the head of its while loop to its next suspension
controlWriteLoopTop(s, writeOk, awaitOk) ==
  IF s.cancelled THEN writeLoopExits(s)
  ELSE IF s.controlWriteBuf = <<>>
  THEN [s EXCEPT !.controlWriteEvent = FALSE, !.writeLoop = "waitEvent"]
  ELSE writeStreamData(s, writeOk, awaitOk)

\* controlWriteLoop resumed from controlWriteEvent_.wait(), by the signal or
\* by the cancellation
controlWriteLoopWakes(s, writeOk, awaitOk) ==
  IF s.cancelled THEN writeLoopExits(s)
  ELSE writeStreamData(s, writeOk, awaitOk)

\* controlWriteLoop resumed from the future of awaitWritable()
controlWriteLoopWritable(s) == [s EXCEPT !.writeLoop = "top"]

ControlWriteLoopTop ==
  /\ session.writeLoop = "top"
  /\ \E writeOk, awaitOk \in BOOLEAN :
       Becomes({controlWriteLoopTop(session, writeOk, awaitOk)})

ControlWriteLoopWakes ==
  /\ session.writeLoop = "waitEvent"
  /\ session.controlWriteEvent \/ session.cancelled
  /\ \E writeOk, awaitOk \in BOOLEAN :
       Becomes({controlWriteLoopWakes(session, writeOk, awaitOk)})

ControlWriteLoopWritable ==
  /\ session.writeLoop = "awaitWritable"
  /\ Becomes({controlWriteLoopWritable(session)})

\* A handler ran while the loop was suspended; the frames of one run are
\* counted whether they wait in the buffer or went to the stream
Writes(S) ==
  /\ ~session.fatal
  /\ \E r \in S :
       /\ Bounded([r EXCEPT !.controlWriteBuf = <<>>])
       /\ Len(r.written) + Len(r.controlWriteBuf) <= MaxWrittenFrames
       /\ session' = r
  /\ UNCHANGED <<stream, ret, priority>>

\* A publisher with its write loop
WriteLoopNext ==
  \/ /\ session.dir = "SERVER"
     /\ ~session.peerSetupSeen
     /\ \E peerParams \in PeerSetupParams, params \in OwnSetupParams :
          \E versionOk, callbackOk \in BOOLEAN :
            Writes(onClientSetup(session, versionOk, peerParams, callbackOk, params))
  \/ ControlMessages
  \/ \E id \in PeerIds : Writes(onSubscribe(session, id))
  \/ \E id \in PeerIds : Writes({subscribeOk(session, id)})
  \/ \E id \in PeerIds : \E res \in BOOLEAN :
       Writes({subscribeErrorRes(session, id, res)})
  \/ Writes(close(session, "NO_ERROR"))
  \/ ControlWriteLoopTop
  \/ ControlWriteLoopWakes
  \/ ControlWriteLoopWritable

\* The loop is a coroutine of the session's event base: it runs when it can,
\* and the transport becomes writable
SpecWriteLoop ==
  /\ SessionInit("SERVER")
  /\ [][WriteLoopNext]_vars
  /\ WF_vars(ControlWriteLoopTop)
  /\ WF_vars(ControlWriteLoopWakes)
  /\ WF_vars(ControlWriteLoopWritable)

\* s is an initial segment of t
IsPrefix(s, t) == Len(s) <= Len(t) /\ SubSeq(t, 1, Len(s)) = s

\* The frames of the run, in the order the handlers wrote them
Frames(s) == s.written \o s.controlWriteBuf

\* C29: the frames appended to the control buffer are handed to the
\* transport in the order they were appended, and while the write loop has
\* not exited a non-empty buffer is eventually written: none of its frames
\* is lost or left waiting, whatever the interleaving of the handlers with
\* the loop.
C29_ControlBufferWritten ==
  /\ [][session'.writeLoop # "exited" =>
          IsPrefix(Frames(session), Frames(session'))]_vars
  /\ \A n \in 1..MaxWrittenFrames :
       (/\ session.writeLoop # "exited"
        /\ session.controlWriteBuf # <<>>
        /\ Len(Frames(session)) = n)
         ~> (Len(session.written) >= n \/ session.writeLoop = "exited")


----------------------------------------------------------------------------
(* Properties of the fetch writer's group order *)

\* What the FetchConsumer calls that carry an object id return, payload
\* within the announced length
FetchPublishes(w, g, sg, o) ==
  {fetchObject(w, g, sg, o, bytes, fin, ok) :
     bytes \in FetchLengths, fin \in BOOLEAN, ok \in BOOLEAN}
  \cup {fetchObjectNotExists(w, g, sg, o, fin, ok) : fin \in BOOLEAN, ok \in BOOLEAN}
  \cup {fetchEndOfGroup(w, g, sg, o, fin, ok) : fin \in BOOLEAN, ok \in BOOLEAN}
  \cup {fetchEndOfTrackAndGroup(w, g, sg, o, ok) : ok \in BOOLEAN}
  \cup {fetchBeginObject(w, g, sg, o, x.length, x.bytes, ok) :
          x \in {y \in [length : FetchLengths, bytes : FetchLengths] :
                   y.bytes <= y.length},
          ok \in BOOLEAN}

\* What any FetchConsumer call with a group returns
FetchCalls(w, g, sg, o) ==
  FetchPublishes(w, g, sg, o)
  \cup {fetchGroupNotExists(w, g, sg, fin, ok) : fin \in BOOLEAN, ok \in BOOLEAN}
  \cup {fetchBeginObject(w, g, sg, o, length, bytes, ok) :
          length \in FetchLengths, bytes \in FetchLengths, ok \in BOOLEAN}

\* No object is in progress and the stream is open
Idle(w) == w.currentLengthRemaining = kNone /\ w.writeHandle

\* C30: on a fetch writer a call with a group below the current one
\* returns API_ERROR and leaves group, subgroup, last object id and the
\* length in progress as they were; a call with a higher group forgets the
\* last object id, so that any object id is taken as the first of the new
\* group; within one group an object id is taken only when it is above the
\* last one.
C30_FetchGroupOrder ==
  \A g \in Groups, sg \in Subgroups, o \in FetchObjectIds :
    /\ g < stream.header.group =>
         \A r \in FetchCalls(stream, g, sg, o) :
           /\ r.ret = "API_ERROR"
           /\ r.w.header = stream.header
           /\ r.w.currentLengthRemaining = stream.currentLengthRemaining
    /\ (g > stream.header.group /\ Idle(stream)) =>
         \A r \in FetchPublishes(stream, g, sg, o) :
           /\ r.ret # "API_ERROR"
           /\ r.w.header = [group |-> g, subgroup |-> sg, id |-> o]
    /\ (g = stream.header.group /\ Idle(stream)
          /\ stream.header.id # kNoObjectId) =>
         \A r \in FetchPublishes(stream, g, sg, o) :
           (r.ret # "API_ERROR") <=> (o > stream.header.id)

\* The writer sent an object of group 0 and then, in a later group, an
\* object whose id is not above it; the last call, on the idle open stream,
\* came back with API_ERROR and without a reset
C30_Witness ==
  /\ stream.streamType = "FETCH_HEADER"
  /\ stream.header.group > 0
  /\ Idle(stream)
  /\ ret = "API_ERROR"
  /\ stream.lastReset = "none"
  /\ \E i, j \in DOMAIN stream.wtData :
       /\ i < j
       /\ stream.wtData[i].kind = "OBJECT"
       /\ stream.wtData[j].kind = "OBJECT"
       /\ stream.wtData[i].group < stream.wtData[j].group
       /\ stream.wtData[j].id <= stream.wtData[i].id


----------------------------------------------------------------------------
(* Properties of the datagrams *)

\* The consumers of the subscriptions were invoked as often in r as in s
SameCalls(s, r) ==
  /\ DOMAIN r.recv = DOMAIN s.recv
  /\ \A id \in DOMAIN s.recv : r.recv[id].calls = s.recv[id].calls

\* C31: a datagram of another type, with a header that does not parse or
\* with a payload length other than the header's closes the session with
\* PROTOCOL_VIOLATION and reaches no consumer; a well-formed datagram for an
\* unknown alias or for a subscription whose callback was released is
\* dropped and the session stays as it was; any other datagram invokes the
\* consumer of its subscription exactly once.
C31_DatagramIngress ==
  \A alias \in LocalIds, datagram \in Datagrams :
    \A r \in onDatagram(session, alias, datagram) :
      IF datagram # "wellFormed"
      THEN /\ ~r.wt
           /\ session.wt =>
                r.closeCodes = Append(session.closeCodes, "PROTOCOL_VIOLATION")
           /\ SameCalls(session, r)
      ELSE IF alias \notin session.subTracks \/ ~session.recv[alias].callback
      THEN r = session
      ELSE /\ r.recv[alias].calls = session.recv[alias].calls + 1
           /\ \A id \in DOMAIN session.recv \ {alias} :
                r.recv[id].calls = session.recv[id].calls
           /\ r.wt = session.wt
           /\ r.closeCodes = session.closeCodes

\* A datagram reached the consumer of a subscription (no stream was opened),
\* and the subscription was unsubscribed afterwards: its next datagram is
\* dropped
C31_Witness ==
  /\ session.streams = <<>>
  /\ session.wt
  /\ \E alias \in session.subTracks :
       /\ session.recv[alias].calls > 0
       /\ ~session.recv[alias].callback


----------------------------------------------------------------------------
(* Properties of the retirement of inbound ids *)

\* The inbound fetches the publisher map holds
InboundFetches(s) == {id \in DOMAIN s.pubTracks : s.pubTracks[id].kind = "fetch"}

\* C32: a subscribe id accepted from the peer is retired at most once:
\* FETCH_CANCEL for an inbound fetch, whether its stream is open or the
\* application has not answered yet, raises closedSubscribes plus the
\* credit already issued by exactly 1 and leaves nothing under the id that
\* a later completion could retire again.
C32_FetchRetiredOnce ==
  \A id \in InboundFetches(session) :
    LET r == onFetchCancel(session, id) IN
    /\ Retired(r) = Retired(session) + 1
    /\ id \notin DOMAIN r.pubTracks


\* C33: the publisher map never holds more live entries than
\* maxConcurrentSubscribes, the window advertised at setup.
C33_LiveEntriesWithinWindow ==
  Cardinality(DOMAIN session.pubTracks) <= session.maxConcurrentSubscribes


\* What the session becomes when it rejects an inbound SUBSCRIBE or FETCH
\* with the subscribe id of a live entry: the id is a duplicate, or the
\* range of the FETCH ends before it starts
Rejections(s, id) ==
  {r \in onSubscribe(s, id) \cup onFetch(s, id, TRUE) \cup onFetch(s, id, FALSE) :
     r.wt = s.wt}

\* C34: an inbound SUBSCRIBE or FETCH that is rejected leaves the
\* publisher map as it was: the entry that exists under its subscribe id is
\* neither removed nor replaced, and the id is not retired.
C34_RejectionKeepsEntry ==
  \A id \in DOMAIN session.pubTracks :
    \A r \in Rejections(session, id) :
      /\ r.pubTracks = session.pubTracks
      /\ Retired(r) = Retired(session)


----------------------------------------------------------------------------
(* Properties of the completion of a stream writer *)

\* C35: the owning publisher's onStreamComplete runs once per stream
\* writer, whatever the writer's calls, write errors, resets and
\* stop-sending signals; the transport's resetStream is called at most once
\* per write handle, and never on a stream whose fin was written.
C35_StreamCompletesOnce ==
  /\ stream.completes <= 1
  /\ Len(stream.wtResets) <= 1
  /\ stream.wtFin => stream.wtResets = <<>>


----------------------------------------------------------------------------
(* Properties of the subscriber's maps *)

\* C36: subIdToTrackAlias_ and subTracks_ describe the same subscriptions in
\* every state: every index entry points to an alias that subTracks_ holds
\* and every receive state of subTracks_ has its index entry (an alias is
\* its subscribe id).
C36_IndexMatchesReceiveStates ==
  session.subIdToTrackAlias = session.subTracks


----------------------------------------------------------------------------
(* Properties of the time before the setup completed *)

\* C37: while setupComplete is false no work of the peer is accepted: an
\* inbound SUBSCRIBE or FETCH (dispatched on the open session once the
\* peer's setup message was read) adds no publisher entry and queues
\* nothing for the application,
\* and an inbound unidirectional stream closes the session with
\* PROTOCOL_VIOLATION.
C37_NothingAcceptedBeforeSetup ==
  ~session.setupComplete =>
    /\ (session.peerSetupSeen /\ session.wt) =>
         \A id \in PeerIds :
           \A r \in onSubscribe(session, id) \cup onFetch(session, id, TRUE) :
             /\ r.pubTracks = session.pubTracks
             /\ r.controlMessages = session.controlMessages
    /\ \A r \in onNewUniStream(session) :
         /\ ~r.wt
         /\ session.wt =>
              r.closeCodes = Append(session.closeCodes, "PROTOCOL_VIOLATION")


\* C38: the future of a subscribe() call resolves once the peer ended the
\* subscription or the session closed, in whatever order the peer's
\* messages arrive: no receive state has left the maps, where nothing can
\* reach it any more, with its promise still pending.
C38_SubscribeFutureResolves ==
  \A id \in DOMAIN session.recv :
    (session.recv[id].kind = "subscribe" /\ id \notin session.subTracks) =>
      isFulfilled(session.recv[id])


----------------------------------------------------------------------------
(* Properties of the announce requests *)

\* Every call of the sequence is answered with a value or waits with a
\* pending entry of its own
Tracked(calls, pending) ==
  \A i \in DOMAIN calls :
    \/ calls[i] \in {"ok", "error", "closed"}
    \/ /\ calls[i] = "pending"
       /\ \E ns \in DOMAIN pending : pending[ns] = i

\* C39: every announce() and subscribeAnnounces() call that wrote its
\* request is tracked until it is answered: also with two requests for one
\* namespace outstanding, each call has its own pending entry and its
\* future gets an Ok or an Error value, from the peer or from the close of
\* the session; no promise is dropped.
C39_AnnouncePromisesTracked ==
  /\ Tracked(session.announceCalls, session.pendingAnnounce)
  /\ Tracked(session.subscribeAnnouncesCalls, session.pendingSubscribeAnnounces)


----------------------------------------------------------------------------
(* Properties of the closed session *)

\* C40: once close() ran, the receive maps of the subscriptions and the
\* fetches, the publisher map and the maps of the pending announces stay
\* empty: a request issued or dispatched after the close adds no entry, and
\* so no request issued after the close is left pending.
C40_ClosedIsAbsorbing ==
  ~session.wt =>
    /\ session.subTracks = {}
    /\ session.fetches = {}
    /\ DOMAIN session.pubTracks = {}
    /\ DOMAIN session.pendingAnnounce = {}
    /\ DOMAIN session.pendingSubscribeAnnounces = {}

=============================================================================
